---- MODULE Spec2Model ----
(***************************************************************************)
(* Model of api/parsers/xactimate_parser.py (class XactimateParser).       *)
(*                                                                         *)
(* Text is carried as TLA+ strings; characters are read with SubSeq.       *)
(* Decimal amounts (Python floats) are carried as integers in thousandths. *)
(***************************************************************************)
EXTENDS Integers, Sequences, FiniteSets, TLC

VARIABLES
    doc,            \* full_text handed to the parser (one string, "\n" separated)
    pc,             \* position inside the parse of XactimateParser
    lines,          \* _extract_line_items_gps_format: lines = text.split('\n')
    i,              \* _extract_line_items_gps_format: loop index (0-based)
    current_room,   \* _extract_line_items_gps_format: local current_room
    line_items,     \* self.line_items
    categories,     \* self.categories (dict in insertion order)
    header_data,    \* self.header_data
    extracted,      \* history: self.line_items as handed to the deduplicator
    results,        \* history: the results returned so far by this instance
    description,    \* argument of a direct _determine_category call
    category,       \* its return value
    unsorted,       \* argument of a direct _sort_categories call
    sorted,         \* its return value: <<>> before the call, <<list>> after
    file,           \* parse_pdf: what each provider extracts from the file at filepath
    attempts,       \* parse_pdf: the providers called so far, in call order
    returned,       \* parse_pdf: <<>> before the return, <<result>> after
    uploads,        \* app.py: file name and content of each request's upload
    fs,             \* app.py: the files in UPLOAD_FOLDER, by name
    handler,        \* app.py: position and locals of each parse_estimate call
    responses       \* app.py: the HTTP response of each request, once sent

vars == <<doc, pc, lines, i, current_room, line_items, categories, header_data,
          extracted, results, description, category, unsorted, sorted,
          file, attempts, returned, uploads, fs, handler, responses>>

parserVars == <<doc, pc, lines, i, current_room, line_items, categories,
                header_data, extracted, results>>
catVars == <<description, category>>
sortVars == <<unsorted, sorted>>
pdfVars == <<file, attempts, returned>>
appVars == <<uploads, fs, handler, responses>>

None == "None"

(***************************************************************************)
(* Bounds of the model.                                                    *)
(***************************************************************************)
MaxBlocks == 2      \* blocks of lines per input text
MaxParses == 2      \* parses run on one parser instance
MaxWords == 2       \* phrases per description handed to the categorizer
MaxCats == 3        \* categories handed to the sorter

(***************************************************************************)
(* Characters and strings (str methods used by the parser).                *)
(***************************************************************************)
Ch(s, k) == SubSeq(s, k, k)

Digits == "0123456789"
LowerAZ == "abcdefghijklmnopqrstuvwxyz"
UpperAZ == "ABCDEFGHIJKLMNOPQRSTUVWXYZ"
\* the characters of the model in ascending code point order
AsciiOrder == "\t\n !#$%&'()*+,-./0123456789:;<=>?@ABCDEFGHIJKLMNOPQRSTUVWXYZ_abcdefghijklmnopqrstuvwxyz"

IndexIn(alphabet, c) ==
    IF \E k \in 1..Len(alphabet) : Ch(alphabet, k) = c
    THEN CHOOSE k \in 1..Len(alphabet) : Ch(alphabet, k) = c
    ELSE 0

DigitSet == {Ch(Digits, k) : k \in 1..Len(Digits)}
LowerSet == {Ch(LowerAZ, k) : k \in 1..Len(LowerAZ)}
UpperSet == {Ch(UpperAZ, k) : k \in 1..Len(UpperAZ)}
ToUpper == [c \in LowerSet |-> Ch(UpperAZ, IndexIn(LowerAZ, c))]
ToLower == [c \in UpperSet |-> Ch(LowerAZ, IndexIn(UpperAZ, c))]
DigitOf == [c \in DigitSet |-> IndexIn(Digits, c) - 1]
CodeOrder == [c \in {Ch(AsciiOrder, k) : k \in 1..Len(AsciiOrder)} |-> IndexIn(AsciiOrder, c)]

IsDigit(c) == c \in DigitSet
IsLower(c) == c \in LowerSet
IsUpper(c) == c \in UpperSet
IsSpace(c) == c \in {" ", "\t", "\n"}
Ord(c) == CodeOrder[c]

\* str.upper(), one character
UpperCh(c) == IF IsLower(c) THEN ToUpper[c] ELSE c
\* str.lower(), one character
LowerCh(c) == IF IsUpper(c) THEN ToLower[c] ELSE c

\* str.upper()
RECURSIVE Upper(_)
Upper(s) ==
    IF s = "" THEN ""
    ELSE IF Len(s) = 1 THEN UpperCh(s)
    ELSE LET h == Len(s) \div 2
         IN Upper(SubSeq(s, 1, h)) \o Upper(SubSeq(s, h + 1, Len(s)))

\* str.lower()
RECURSIVE Lower(_)
Lower(s) ==
    IF s = "" THEN ""
    ELSE IF Len(s) = 1 THEN LowerCh(s)
    ELSE LET h == Len(s) \div 2
         IN Lower(SubSeq(s, 1, h)) \o Lower(SubSeq(s, h + 1, Len(s)))

\* kw in s
Contains(s, kw) ==
    \E k \in 1..(Len(s) - Len(kw) + 1) : SubSeq(s, k, k + Len(kw) - 1) = kw

\* any(kw in s for kw in kws)
ContainsAny(s, kws) == \E kw \in kws : Contains(s, kw)

\* str.strip()
RECURSIVE LStrip(_)
LStrip(s) == IF s # "" /\ IsSpace(Head(s)) THEN LStrip(Tail(s)) ELSE s
RECURSIVE RStrip(_)
RStrip(s) ==
    IF s # "" /\ IsSpace(Ch(s, Len(s))) THEN RStrip(SubSeq(s, 1, Len(s) - 1)) ELSE s
Strip(s) == RStrip(LStrip(s))

\* str.replace(c, '') for every character c of the string chars
RECURSIVE RemoveChars(_, _)
RemoveChars(s, chars) ==
    IF s = "" THEN ""
    ELSE (IF IndexIn(chars, Head(s)) > 0 THEN "" ELSE Head(s)) \o RemoveChars(Tail(s), chars)

\* str.split(sep) for a one-character separator
RECURSIVE SplitOn(_, _)
SplitOn(s, sep) ==
    IF \E k \in 1..Len(s) : Ch(s, k) = sep
    THEN LET k == CHOOSE k \in 1..Len(s) :
                     /\ Ch(s, k) = sep
                     /\ \A m \in 1..(k - 1) : Ch(s, m) # sep
         IN <<SubSeq(s, 1, k - 1)>> \o SplitOn(SubSeq(s, k + 1, Len(s)), sep)
    ELSE <<s>>

\* str.split(): the maximal runs of non-whitespace characters
RECURSIVE Split(_)
Split(s) ==
    LET t == LStrip(s)
    IN IF t = "" THEN <<>>
       ELSE LET n == IF \E k \in 1..Len(t) : IsSpace(Ch(t, k))
                     THEN (CHOOSE k \in 1..Len(t) :
                              /\ IsSpace(Ch(t, k))
                              /\ \A m \in 1..(k - 1) : ~IsSpace(Ch(t, m))) - 1
                     ELSE Len(t)
            IN <<SubSeq(t, 1, n)>> \o Split(SubSeq(t, n + 1, Len(t)))

\* str.replace(old, '') for a substring old, leftmost occurrences first
RECURSIVE RemoveSub(_, _)
RemoveSub(s, old) ==
    IF Len(s) < Len(old) THEN s
    ELSE IF SubSeq(s, 1, Len(old)) = old
         THEN RemoveSub(SubSeq(s, Len(old) + 1, Len(s)), old)
         ELSE Head(s) \o RemoveSub(Tail(s), old)

\* ' '.join(parts)
RECURSIVE JoinWith(_, _)
JoinWith(parts, sep) ==
    IF parts = <<>> THEN ""
    ELSE IF Len(parts) = 1 THEN parts[1]
    ELSE parts[1] \o sep \o JoinWith(Tail(parts), sep)

\* a < b on str (code point order)
RECURSIVE StrLess(_, _)
StrLess(a, b) ==
    IF b = "" THEN FALSE
    ELSE IF a = "" THEN TRUE
    ELSE IF Head(a) = Head(b) THEN StrLess(Tail(a), Tail(b))
    ELSE Ord(Head(a)) < Ord(Head(b))

\* length of the longest prefix of s whose characters all satisfy a class
RECURSIVE DigitRun(_)
DigitRun(s) == IF s # "" /\ IsDigit(Head(s)) THEN 1 + DigitRun(Tail(s)) ELSE 0
RECURSIVE SpaceRun(_)
SpaceRun(s) == IF s # "" /\ IsSpace(Head(s)) THEN 1 + SpaceRun(Tail(s)) ELSE 0
IsNumChar(c) == IsDigit(c) \/ c \in {",", "."}
RECURSIVE NumRun(_)
NumRun(s) == IF s # "" /\ IsNumChar(Head(s)) THEN 1 + NumRun(Tail(s)) ELSE 0
RECURSIVE UpperRun(_)
UpperRun(s) == IF s # "" /\ IsUpper(Head(s)) THEN 1 + UpperRun(Tail(s)) ELSE 0

(***************************************************************************)
(* Categorizer: _determine_category.                                       *)
(* The if-cascade of the method, one entry per if statement in source      *)
(* order.  An entry returns its label when the uppercased description      *)
(* contains one of the keywords of "any" and none of the keywords of       *)
(* "none" (the "not in" conditions of the sink, toilet and HVAC rules).    *)
(***************************************************************************)
CategoryRules == <<
    \* 1 (line 313)
    [any |-> {"DEDUCTION", "DEDUCT FOR", "LESS ", "SUBTRACT", "CREDIT FOR"},
     none |-> {}, label |-> "GENERAL"],
    \* 2 (line 320)
    [any |-> {"WATER EXTRACTION", "STRUCTURAL DRYING", "MOISTURE", "DEHUMID", "AIR MOVER", "WATER MITIGATION"},
     none |-> {}, label |-> "WATER EXTRACTION & REMEDIATION"],
    \* 3 (line 324)
    [any |-> {"CLEAN", "MUCK OUT", "SANITIZE", "DISINFECT", "ANTI-MICROBIAL", "ANTIMICROBIAL", "DEODOR"},
     none |-> {}, label |-> "CLEANING"],
    \* 4 (line 328)
    [any |-> {"DEMO", "DEMOLITION", "TEAR OUT", "REMOVE ", "DISPOSAL", "DUMPSTER", "HAUL", "DEBRIS"},
     none |-> {}, label |-> "GENERAL DEMOLITION"],
    \* 5 (line 332)
    [any |-> {"TEMPORARY", "TARP", "BOARD UP", "EMERGENCY"},
     none |-> {}, label |-> "TEMPORARY REPAIRS"],
    \* 6 (line 339)
    [any |-> {"DOOR", "THRESHOLD", "DOOR HARDWARE", "DOOR KNOB", "DOOR HANDLE", "LOCKSET", "DEADBOLT"},
     none |-> {}, label |-> "DOORS"],
    \* 7 (line 343)
    [any |-> {"PATIO DOOR", "SLIDING DOOR", "SLIDING GLASS"},
     none |-> {}, label |-> "WINDOWS - SLIDING PATIO DOORS"],
    \* 8 (line 345)
    [any |-> {"WINDOW", "GLASS", "GLAZING"},
     none |-> {}, label |-> "WINDOWS - ALUMINUM"],
    \* 9 (line 347)
    [any |-> {"WINDOW TREATMENT", "BLINDS", "SHADE", "CURTAIN"},
     none |-> {}, label |-> "WINDOW TREATMENT"],
    \* 10 (line 351)
    [any |-> {"MIRROR", "SHOWER DOOR", "TUB DOOR", "GLASS DOOR"},
     none |-> {}, label |-> "MIRRORS & SHOWER DOORS"],
    \* 11 (line 355)
    [any |-> {"APPLIANCE", "DISHWASHER", "RANGE", "REFRIGERATOR", "WASHER", "DRYER", "GARBAGE DISPOSAL", "DISPOSAL", "MICROWAVE", "STOVE", "OVEN"},
     none |-> {}, label |-> "APPLIANCES"],
    \* 12 (line 359)
    [any |-> {"PLUMB", "FAUCET", "VALVE", "PIPE", "DRAIN", "TRAP", "SUPPLY LINE", "WATER LINE", "SHOWER HEAD", "TUB", "BATHTUB"},
     none |-> {}, label |-> "PLUMBING"],
    \* 13 (line 363)
    [any |-> {"SINK"},
     none |-> {"CABINET"}, label |-> "PLUMBING"],
    \* 14 (line 365)
    [any |-> {"TOILET"},
     none |-> {"ACCESSORY"}, label |-> "PLUMBING"],
    \* 15 (line 369)
    [any |-> {"ELECTRIC", "OUTLET", "SWITCH", "RECEPTACLE", "WIRE", "WIRING", "BREAKER", "PANEL", "GFI", "GFCI"},
     none |-> {}, label |-> "ELECTRICAL"],
    \* 16 (line 373)
    [any |-> {"LIGHT FIXTURE", "LIGHTING", "CHANDELIER", "CEILING FAN"},
     none |-> {}, label |-> "LIGHT FIXTURES"],
    \* 17 (line 377)
    [any |-> {"HVAC", "AIR CONDITION", "FURNACE", "DUCT", "AC UNIT", "HEAT PUMP", "CONDENSER", "THERMOSTAT"},
     none |-> {"STRUCTURAL DRYING", "WATER"}, label |-> "HEAT, VENT & AIR CONDITIONING"],
    \* 18 (line 384)
    [any |-> {"CABINET", "COUNTER TOP", "COUNTERTOP", "VANITY"},
     none |-> {}, label |-> "CABINETRY"],
    \* 19 (line 388)
    [any |-> {"DRYWALL", "SHEETROCK", "GYPSUM", "TEXTURE WALL", "TEXTURE CEILING"},
     none |-> {}, label |-> "DRYWALL"],
    \* 20 (line 392)
    [any |-> {"PLASTER", "LATH"},
     none |-> {}, label |-> "INTERIOR LATH & PLASTER"],
    \* 21 (line 396)
    [any |-> {"STUCCO", "EXTERIOR PLASTER"},
     none |-> {}, label |-> "STUCCO & EXTERIOR PLASTER"],
    \* 22 (line 400)
    [any |-> {"BASEBOARD", "BASE BOARD", "TRIM", "MOLDING", "CASING", "CROWN", "WAINSCOT", "CHAIR RAIL"},
     none |-> {}, label |-> "FINISH CARPENTRY / TRIMWORK"],
    \* 23 (line 404)
    [any |-> {"FINISH HARDWARE", "KNOB", "HANDLE", "HINGE", "PULL"},
     none |-> {}, label |-> "FINISH HARDWARE"],
    \* 24 (line 408)
    [any |-> {"PAINT", "PRIMER", "STAIN", "WOOD FINISH", "SEAL"},
     none |-> {}, label |-> "PAINTING & WOOD WALL FINISHES"],
    \* 25 (line 412)
    [any |-> {"PANEL", "WOOD PANEL", "WAINSCOTING"},
     none |-> {}, label |-> "PANELING & WOOD WALL FINISHES"],
    \* 26 (line 416)
    [any |-> {"WALLPAPER"},
     none |-> {}, label |-> "WALLPAPER"],
    \* 27 (line 422)
    [any |-> {"FLOOR PERIMETER", "PERIMETER"},
     none |-> {}, label |-> "PAINTING & WOOD WALL FINISHES"],
    \* 28 (line 426)
    [any |-> {"CERAMIC TILE", "PORCELAIN TILE"},
     none |-> {}, label |-> "FLOOR COVERING - CERAMIC TILE"],
    \* 29 (line 428)
    [any |-> {"CARPET", "PAD"},
     none |-> {}, label |-> "FLOOR COVERING - CARPET"],
    \* 30 (line 430)
    [any |-> {"STONE FLOOR", "MARBLE FLOOR", "GRANITE FLOOR", "TRAVERTINE"},
     none |-> {}, label |-> "FLOOR COVERING - STONE"],
    \* 31 (line 432)
    [any |-> {"HARDWOOD", "WOOD FLOOR", "OAK FLOOR", "ENGINEERED WOOD"},
     none |-> {}, label |-> "FLOOR COVERING - WOOD"],
    \* 32 (line 434)
    [any |-> {"VINYL", "LVP", "LVT", "LUXURY VINYL"},
     none |-> {}, label |-> "FLOOR COVERING - VINYL"],
    \* 33 (line 436)
    [any |-> {"LAMINATE"},
     none |-> {}, label |-> "FLOOR COVERING - LAMINATE"],
    \* 34 (line 440)
    [any |-> {"TILE", "REGROUT"},
     none |-> {}, label |-> "TILE"],
    \* 35 (line 444)
    [any |-> {"FLOOR", "FLOORING"},
     none |-> {}, label |-> "FLOOR COVERING"],
    \* 36 (line 450)
    [any |-> {"SOFFIT", "FASCIA", "GUTTER", "DOWNSPOUT"},
     none |-> {}, label |-> "SOFFIT, FASCIA, & GUTTER"],
    \* 37 (line 454)
    [any |-> {"INSULATION", "INSULATE", "BATT", "BLOWN-IN"},
     none |-> {}, label |-> "INSULATION"],
    \* 38 (line 458)
    [any |-> {"TOILET ACCESSORY", "BATH ACCESSORY", "TOWEL BAR", "PAPER HOLDER", "GRAB BAR"},
     none |-> {}, label |-> "TOILET & BATH ACCESSORIES"]
>>

RuleApplies(rule, desc_upper) ==
    ContainsAny(desc_upper, rule.any) /\ ~ContainsAny(desc_upper, rule.none)

\* the label returned by the first if statement that returns, else the default
CascadeLabel(desc_upper, rules) ==
    IF \E k \in 1..Len(rules) : RuleApplies(rules[k], desc_upper)
    THEN rules[CHOOSE k \in 1..Len(rules) :
                  /\ RuleApplies(rules[k], desc_upper)
                  /\ \A m \in 1..(k - 1) : ~RuleApplies(rules[m], desc_upper)].label
    ELSE "GENERAL"

\* rules with the entry at position from moved to position to
MoveRule(rules, from, to) ==
    LET rest == SubSeq(rules, 1, from - 1) \o SubSeq(rules, from + 1, Len(rules))
        pos == IF to > from THEN to - 1 ELSE to
    IN SubSeq(rest, 1, pos - 1) \o <<rules[from]>> \o SubSeq(rest, pos, Len(rest))

\* index of the first entry of the cascade that returns label
RuleIndex(label) == CHOOSE k \in 1..Len(CategoryRules) :
    /\ CategoryRules[k].label = label
    /\ \A m \in 1..(k - 1) : CategoryRules[m].label # label

\* variants of the cascade used to test the properties below
determine_category_insulation_first(description_arg) ==
    CascadeLabel(Upper(description_arg),
                 MoveRule(CategoryRules, RuleIndex("INSULATION"), RuleIndex("DOORS")))
determine_category_floor_first(description_arg) ==
    CascadeLabel(Upper(description_arg),
                 MoveRule(CategoryRules, RuleIndex("FLOOR COVERING"), RuleIndex("WALLPAPER")))
determine_category_case_sensitive(description_arg) ==
    CascadeLabel(description_arg, CategoryRules)

\* the cascade returning the label of the last entry that applies
determine_category_last_match(description_arg) ==
    LET desc_upper == Upper(description_arg)
        applies == {k \in 1..Len(CategoryRules) : RuleApplies(CategoryRules[k], desc_upper)}
    IN IF applies = {} THEN "GENERAL"
       ELSE CategoryRules[CHOOSE k \in applies : \A m \in applies : m <= k].label

_determine_category(description_arg) ==
    LET desc_upper == Upper(description_arg)
    IN CascadeLabel(desc_upper, CategoryRules)

(***************************************************************************)
(* Numbers.  float(s) on the plain decimal numerals of the model: an       *)
(* optional sign, digits and at most one period, at least one digit.       *)
(* A value is the integer number of thousandths; ok = FALSE stands for     *)
(* the ValueError float() raises on any other string.                      *)
(***************************************************************************)
RECURSIVE DigitsValue(_)
DigitsValue(s) ==
    IF s = "" THEN 0
    ELSE DigitsValue(SubSeq(s, 1, Len(s) - 1)) * 10 + DigitOf[Ch(s, Len(s))]

ParseFloat(s) ==
    LET t == Strip(s)
        signed == t # "" /\ Head(t) \in {"+", "-"}
        body == IF signed THEN Tail(t) ELSE t
        n == DigitRun(body)
        after == SubSeq(body, n + 1, Len(body))
        hasPoint == after # "" /\ Head(after) = "."
        frac == IF hasPoint THEN Tail(after) ELSE after
        f == DigitRun(frac)
        wellFormed == f = Len(frac) /\ (hasPoint \/ frac = "") /\ n + f >= 1
        frac3 == SubSeq(frac \o "000", 1, 3)
        magnitude == DigitsValue(SubSeq(body, 1, n)) * 1000 + DigitsValue(frac3)
    IN IF wellFormed
       THEN [ok |-> TRUE, val |-> IF signed /\ Head(t) = "-" THEN 0 - magnitude ELSE magnitude]
       ELSE [ok |-> FALSE, val |-> 0]

\* round(x, 2) on a value in thousandths (ties to the even hundredth)
Round2(v) ==
    LET q == v \div 10
        r == v % 10
    IN IF r < 5 THEN q * 10
       ELSE IF r > 5 THEN (q + 1) * 10
       ELSE IF q % 2 = 0 THEN q * 10 ELSE (q + 1) * 10

_parse_number(value) ==
    LET cleaned == Strip(RemoveChars(value, ","))
    IN IF cleaned # "" THEN ParseFloat(cleaned) ELSE [ok |-> TRUE, val |-> 0]

_parse_currency(value) ==
    LET cleaned == Strip(RemoveChars(value, "$,<>()"))
    IN IF cleaned # "" THEN ParseFloat(cleaned) ELSE [ok |-> TRUE, val |-> 0]

(***************************************************************************)
(* The regular expressions of the line scan, each on one line of text.     *)
(***************************************************************************)
\* end of the group (\d+[a-z]?) at the start of line, 0 when it does not match
NumberPrefix(line) ==
    LET n == DigitRun(line)
    IN IF n = 0 THEN 0
       ELSE IF n < Len(line) /\ IsLower(Ch(line, n + 1)) /\ n + 1 < Len(line)
               /\ Ch(line, n + 2) = "."
            THEN n + 1
            ELSE n

\* item_pattern = r'^(\d+[a-z]?)\.\s+(.+)' with re.match
ItemMatches(line) ==
    LET p == NumberPrefix(line)
        tail == SubSeq(line, p + 2, Len(line))
        w == SpaceRun(tail)
    IN /\ p >= 1
       /\ p < Len(line)
       /\ Ch(line, p + 1) = "."
       /\ w >= 1
       /\ (w < Len(tail) \/ w >= 2)

ItemGroup1(line) == SubSeq(line, 1, NumberPrefix(line))

ItemGroup2(line) ==
    LET p == NumberPrefix(line)
        tail == SubSeq(line, p + 2, Len(line))
        w == SpaceRun(tail)
    IN IF w < Len(tail) THEN SubSeq(tail, w + 1, Len(tail)) ELSE SubSeq(tail, w, Len(tail))

\* stop_pattern = r'^\d+[a-z]?\.\s+\S' with re.match
StopMatches(line) ==
    LET p == NumberPrefix(line)
        tail == SubSeq(line, p + 2, Len(line))
        w == SpaceRun(tail)
    IN /\ p >= 1
       /\ p < Len(line)
       /\ Ch(line, p + 1) = "."
       /\ w >= 1
       /\ w < Len(tail)

IsAllDigits(tok) == tok # "" /\ DigitRun(tok) = Len(tok)
IsNumLike(tok) == tok # "" /\ NumRun(tok) = Len(tok)
\* unit_pattern = r'^[A-Z]{2,3}$'
IsUnit(tok) == Len(tok) \in {2, 3} /\ UpperRun(tok) = Len(tok)
IsParenNum(tok) ==
    /\ Len(tok) >= 3
    /\ Head(tok) = "("
    /\ Ch(tok, Len(tok)) = ")"
    /\ IsNumLike(SubSeq(tok, 2, Len(tok) - 1))

\* single_pattern without the leading item number
SingleMatchesSixTokens(next_line) ==
    LET parts == Split(next_line)
    IN /\ Len(parts) = 6
       /\ IsNumLike(parts[1])
       /\ IsUnit(parts[2])
       /\ IsNumLike(parts[3])
       /\ IsNumLike(parts[4])
       /\ IsParenNum(parts[5])
       /\ IsNumLike(parts[6])

\* single_pattern = r'^\d+\s+[\d,.]+\s+[A-Z]{2,3}\s+[\d,.]+\s+[\d,.]+\s+\([\d,.]+\)\s+[\d,.]+$'
\* with re.search on a stripped line: no token class admits whitespace, so the
\* pattern matches exactly when the whitespace-separated tokens have these shapes
SingleMatches(next_line) ==
    LET parts == Split(next_line)
    IN /\ Len(parts) = 7
       /\ IsAllDigits(parts[1])
       /\ IsNumLike(parts[2])
       /\ IsUnit(parts[3])
       /\ IsNumLike(parts[4])
       /\ IsNumLike(parts[5])
       /\ IsParenNum(parts[6])
       /\ IsNumLike(parts[7])

\* qty_pattern = r'([\d,.]+)\s+([A-Z]{2,3})' with re.match
QtyMatches(line) ==
    LET n == NumRun(line)
        tail == SubSeq(line, n + 1, Len(line))
        w == SpaceRun(tail)
    IN n >= 1 /\ w >= 1 /\ UpperRun(SubSeq(tail, w + 1, Len(tail))) >= 2

QtyGroup1(line) == SubSeq(line, 1, NumRun(line))

QtyGroup2(line) ==
    LET n == NumRun(line)
        tail == SubSeq(line, n + 1, Len(line))
        rest == SubSeq(tail, SpaceRun(tail) + 1, Len(tail))
    IN SubSeq(rest, 1, IF UpperRun(rest) >= 3 THEN 3 ELSE 2)

\* num_pattern = r'^[\d,.<>]+$' with re.match
NumPatternMatches(s) == s # "" /\ RemoveChars(s, "0123456789,.<>") = ""

(***************************************************************************)
(* Line item extraction.                                                   *)
(***************************************************************************)
\* _is_room_header_gps
_is_room_header_gps(line) ==
    LET room_keywords == {"EXTERIOR", "ENTRY", "FOYER", "KITCHEN", "BATHROOM", "BEDROOM",
                          "LIVING", "DINING", "GARAGE", "LAUNDRY", "MAIN LEVEL", "BASEMENT",
                          "HALLWAY", "OFFICE", "DEN", "CLOSET", "UTILITY", "PANTRY",
                          "MASTER", "GUEST", "FAMILY ROOM"}
        exclude == {"DESCRIPTION", "QUANTITY", "UNIT", "PRICE", "HEIGHT:"}
        line_upper == Upper(line)
    IN IF line = "" \/ Len(line) > 50 THEN FALSE
       ELSE ContainsAny(line_upper, room_keywords) /\ ~ContainsAny(line_upper, exclude)

\* index in parts (1-based) of the first token matching unit_pattern, 0 if none
UnitIndex(parts) ==
    IF \E k \in 1..Len(parts) : IsUnit(parts[k])
    THEN CHOOSE k \in 1..Len(parts) :
            IsUnit(parts[k]) /\ \A m \in 1..(k - 1) : ~IsUnit(parts[m])
    ELSE 0

\* _parse_single_line_format with the quantity read from the first token of
\* the data line (the item number) and rcv and acv taken in the other order
parse_single_line_first_token(items, line_num, desc, data_line, room) ==
    LET parts == Split(data_line)
        unit_idx == UnitIndex(parts)
        remaining == SubSeq(parts, unit_idx + 1, Len(parts))
        quantity == _parse_number(parts[1])
        unit_price == _parse_currency(remaining[1])
        rcv == _parse_currency(remaining[4])
        depreciation == _parse_currency(remaining[3])
        acv == _parse_currency(remaining[2])
    IN IF Len(parts) >= 6 /\ unit_idx > 1 /\ Len(remaining) >= 4
       THEN IF quantity.ok /\ unit_price.ok /\ rcv.ok /\ depreciation.ok /\ acv.ok
            THEN <<[line_number |-> Len(items) + 1,
                    room |-> room,
                    description |-> desc,
                    quantity |-> quantity.val,
                    unit |-> parts[unit_idx],
                    unit_price |-> unit_price.val,
                    tax |-> 0,
                    o_and_p |-> 0,
                    rcv |-> rcv.val,
                    depreciation |-> depreciation.val,
                    acv |-> acv.val,
                    category |-> _determine_category(desc)]>>
            ELSE <<>>
       ELSE <<>>

\* _parse_single_line_format: the items it appends to self.line_items (one or
\* none); none also when a conversion raises, which the caller catches
_parse_single_line_format(items, line_num, desc, data_line, room) ==
    LET parts == Split(data_line)
        unit_idx == UnitIndex(parts)
        remaining == SubSeq(parts, unit_idx + 1, Len(parts))
        quantity == _parse_number(parts[unit_idx - 1])
        unit_price == _parse_currency(remaining[1])
        rcv == _parse_currency(remaining[2])
        depreciation == _parse_currency(remaining[3])
        acv == _parse_currency(remaining[4])
    IN IF Len(parts) >= 6 /\ unit_idx > 1 /\ Len(remaining) >= 4
       THEN IF quantity.ok /\ unit_price.ok /\ rcv.ok /\ depreciation.ok /\ acv.ok
            THEN <<[line_number |-> Len(items) + 1,
                    room |-> room,
                    description |-> desc,
                    quantity |-> quantity.val,
                    unit |-> parts[unit_idx],
                    unit_price |-> unit_price.val,
                    tax |-> 0,
                    o_and_p |-> 0,
                    rcv |-> rcv.val,
                    depreciation |-> depreciation.val,
                    acv |-> acv.val,
                    category |-> _determine_category(desc)]>>
            ELSE <<>>
       ELSE <<>>

\* CollectDataLines with the bound of the loop one line further
RECURSIVE CollectDataLinesOneMore(_, _, _)
CollectDataLinesOneMore(all_lines, j, line_idx) ==
    IF j < Len(all_lines) /\ j < line_idx + 16
    THEN LET next_line == Strip(all_lines[j + 1])
         IN IF next_line # "" /\ ~StopMatches(next_line)
            THEN <<next_line>> \o CollectDataLinesOneMore(all_lines, j + 1, line_idx)
            ELSE <<>>
    ELSE <<>>

\* the while loop of _parse_multi_line_format: data_lines collected from
\* index j (0-based) while j < len(lines) and j < line_idx + 15
RECURSIVE CollectDataLines(_, _, _)
CollectDataLines(all_lines, j, line_idx) ==
    IF j < Len(all_lines) /\ j < line_idx + 15
    THEN LET next_line == Strip(all_lines[j + 1])
         IN IF next_line # "" /\ ~StopMatches(next_line)
            THEN <<next_line>> \o CollectDataLines(all_lines, j + 1, line_idx)
            ELSE <<>>
    ELSE <<>>

\* ContinueDescription reading the collected lines up to the last one
RECURSIVE ContinueDescriptionToEnd(_, _, _)
ContinueDescriptionToEnd(full_description, data_lines, desc_continuation_idx) ==
    IF desc_continuation_idx < Len(data_lines)
    THEN LET next_desc == data_lines[desc_continuation_idx + 1]
             skip_words == {"TOTAL", "DESCRIPTION", "QUANTITY", "CONTINUED"}
             extended ==
                 IF /\ next_desc # ""
                    /\ ~NumPatternMatches(next_desc)
                    /\ Len(next_desc) > 3
                    /\ ~ContainsAny(Upper(next_desc), skip_words)
                 THEN full_description \o " " \o next_desc
                 ELSE full_description
         IN ContinueDescriptionToEnd(extended, data_lines, desc_continuation_idx + 1)
    ELSE full_description

\* the description continuation loop of _parse_multi_line_format
RECURSIVE ContinueDescription(_, _, _)
ContinueDescription(full_description, data_lines, desc_continuation_idx) ==
    IF desc_continuation_idx < Len(data_lines) /\ desc_continuation_idx < 10
    THEN LET next_desc == data_lines[desc_continuation_idx + 1]
             skip_words == {"TOTAL", "DESCRIPTION", "QUANTITY", "CONTINUED"}
             extended ==
                 IF /\ next_desc # ""
                    /\ ~NumPatternMatches(next_desc)
                    /\ Len(next_desc) > 3
                    /\ ~ContainsAny(Upper(next_desc), skip_words)
                 THEN full_description \o " " \o next_desc
                 ELSE full_description
         IN ContinueDescription(extended, data_lines, desc_continuation_idx + 1)
    ELSE full_description

\* _parse_multi_line_format: <<item>> for the returned dict, <<>> for None and
\* for a conversion that raises (caught by the caller)
_parse_multi_line_format(items, line_idx, line_num, desc, all_lines, room) ==
    LET data_lines == CollectDataLines(all_lines, line_idx + 1, line_idx)
    IN IF Len(data_lines) >= 7 /\ QtyMatches(data_lines[1])
       THEN LET quantity == _parse_number(QtyGroup1(data_lines[1]))
                unit == QtyGroup2(data_lines[1])
                unit_price == _parse_currency(data_lines[2])
                tax == _parse_currency(data_lines[3])
                o_and_p == _parse_currency(data_lines[4])
                rcv == _parse_currency(data_lines[5])
                depreciation == _parse_currency(data_lines[6])
                acv == _parse_currency(data_lines[7])
                full_description == ContinueDescription(desc, data_lines, 7)
            IN IF /\ quantity.ok /\ unit_price.ok /\ tax.ok /\ o_and_p.ok
                  /\ rcv.ok /\ depreciation.ok /\ acv.ok
               THEN <<[line_number |-> Len(items) + 1,
                       room |-> room,
                       description |-> full_description,
                       quantity |-> quantity.val,
                       unit |-> unit,
                       unit_price |-> unit_price.val,
                       tax |-> tax.val,
                       o_and_p |-> o_and_p.val,
                       rcv |-> rcv.val,
                       depreciation |-> depreciation.val,
                       acv |-> acv.val,
                       category |-> _determine_category(full_description)]>>
               ELSE <<>>
       ELSE <<>>

\* ScanItems with the bound check on the next line off by one
ScanItemsShortLookahead(items, all_lines, idx, room) ==
    LET line == Strip(all_lines[idx + 1])
    IN IF ItemMatches(line) /\ idx + 2 < Len(all_lines)
       THEN LET line_num == ItemGroup1(line)
                desc == Strip(ItemGroup2(line))
                next_line == Strip(all_lines[idx + 2])
            IN IF SingleMatches(next_line)
               THEN _parse_single_line_format(items, line_num, desc, next_line, room)
               ELSE _parse_multi_line_format(items, idx, line_num, desc, all_lines, room)
       ELSE <<>>

\* one iteration of the while loop of _extract_line_items_gps_format at index
\* idx (0-based): the items appended to self.line_items
ScanItems(items, all_lines, idx, room) ==
    LET line == Strip(all_lines[idx + 1])
    IN IF ItemMatches(line) /\ idx + 1 < Len(all_lines)
       THEN LET line_num == ItemGroup1(line)
                desc == Strip(ItemGroup2(line))
                next_line == Strip(all_lines[idx + 2])
            IN IF SingleMatches(next_line)
               THEN _parse_single_line_format(items, line_num, desc, next_line, room)
               ELSE _parse_multi_line_format(items, idx, line_num, desc, all_lines, room)
       ELSE <<>>

\* ScanRoom with the room forgotten on the line after an item header
ScanRoomResetAfterItem(all_lines, idx, room) ==
    LET line == Strip(all_lines[idx + 1])
    IN IF _is_room_header_gps(line) THEN line
       ELSE IF idx > 0 /\ ItemMatches(Strip(all_lines[idx])) THEN None
       ELSE room

\* the room in force after the room check of that iteration
ScanRoom(all_lines, idx, room) ==
    LET line == Strip(all_lines[idx + 1])
    IN IF _is_room_header_gps(line) THEN line ELSE room

(***************************************************************************)
(* Header extraction: _extract_header_data.  Every search is re.search     *)
(* with re.IGNORECASE on the whole text: the leftmost position at which    *)
(* the label and the value after it match.                                 *)
(***************************************************************************)
\* positions (1-based) at which label occurs in text, letter case ignored
LabelPositions(text, label) ==
    LET low == Lower(text)
        lab == Lower(label)
    IN {k \in 1..(Len(text) - Len(label) + 1) : SubSeq(low, k, k + Len(label) - 1) = lab}

\* the text after the label at position k and the whitespace following it (\s*)
AfterLabel(text, label, k) ==
    LStrip(SubSeq(text, k + Len(label), Len(text)))

RECURSIVE DigitHyphenRun(_)
DigitHyphenRun(s) ==
    IF s # "" /\ (IsDigit(Head(s)) \/ Head(s) = "-") THEN 1 + DigitHyphenRun(Tail(s)) ELSE 0

\* length of the match of \d{1,2}/\d{1,2}/\d{2,4} at the start of s, 0 if none
DateRun(s) ==
    LET n1 == DigitRun(s)
        s2 == SubSeq(s, n1 + 2, Len(s))
        n2 == DigitRun(s2)
        s3 == SubSeq(s2, n2 + 2, Len(s2))
        n3 == DigitRun(s3)
    IN IF /\ n1 \in {1, 2} /\ Ch(s, n1 + 1) = "/"
          /\ n2 \in {1, 2} /\ Ch(s2, n2 + 1) = "/"
          /\ n3 >= 2
       THEN n1 + 1 + n2 + 1 + (IF n3 > 4 THEN 4 ELSE n3)
       ELSE 0

\* length of the value of the given pattern at the start of s, 0 if none
ValueRun(pattern, s) ==
    CASE pattern = "(\\d+)" -> DigitRun(s)
      [] pattern = "([\\d-]+)" -> DigitHyphenRun(s)
      [] pattern = "(\\d{1,2}/\\d{1,2}/\\d{2,4})" -> DateRun(s)

\* group(1) of the leftmost match of label\s*(value), <<>> when there is none
FieldSearch(text, label, pattern) ==
    LET hits == {k \in LabelPositions(text, label) :
                    ValueRun(pattern, AfterLabel(text, label, k)) > 0}
    IN IF hits = {} THEN <<>>
       ELSE LET k == CHOOSE k \in hits : \A m \in hits : k <= m
                after == AfterLabel(text, label, k)
            IN <<SubSeq(after, 1, ValueRun(pattern, after))>>

SetField(header, field, found) ==
    IF found = <<>> THEN header ELSE (field :> found[1]) @@ header

IsLetter(c) == IsLower(c) \/ IsUpper(c)
\* the class [A-Z\s&,.\-'] under re.IGNORECASE
IsNameChar(c) == IsLetter(c) \/ IsSpace(c) \/ c \in {"&", ",", ".", "-", "'"}

\* (?:\s+Home:|\s+E-mail:|\n) at position p of s, letter case ignored
NameEndsAt(s, p) ==
    LET rest == SubSeq(s, p, Len(s))
        w == SpaceRun(rest)
        word == Lower(SubSeq(rest, w + 1, Len(rest)))
    IN \/ w >= 1 /\ SubSeq(word, 1, 5) = "home:"
       \/ w >= 1 /\ SubSeq(word, 1, 7) = "e-mail:"
       \/ rest # "" /\ Head(rest) = "\n"

\* lengths L of a group ([A-Z][A-Z\s&,.\-']+?) at the start of s that is
\* followed by the end of the name; the lazy quantifier takes the least
NameLengths(s) ==
    {L \in 2..Len(s) :
        /\ IsLetter(Head(s))
        /\ \A m \in 2..L : IsNameChar(Ch(s, m))
        /\ NameEndsAt(s, L + 1)}

\* name_pattern with re.search: group(1) of the leftmost match
NameSearch(text) ==
    LET label == "Insured:"
        hits == {k \in LabelPositions(text, label) :
                    NameLengths(AfterLabel(text, label, k)) # {}}
    IN IF hits = {} THEN <<>>
       ELSE LET k == CHOOSE k \in hits : \A m \in hits : k <= m
                after == AfterLabel(text, label, k)
                L == CHOOSE L \in NameLengths(after) : \A m \in NameLengths(after) : L <= m
            IN <<SubSeq(after, 1, L)>>

\* r"Property:\s*(.+?)(?:\n|\s{2,})" matches with the label at position k:
\* some whitespace, one or more characters other than a line break, then a
\* line break or two whitespace characters
PropertyMatchesAt(text, k) ==
    LET rest == SubSeq(text, k + Len("Property:"), Len(text))
    IN \E p \in 2..Len(rest) :
          /\ \E a \in 0..(p - 2) :
                /\ \A m \in 1..a : IsSpace(Ch(rest, m))
                /\ \A m \in (a + 1)..(p - 1) : Ch(rest, m) # "\n"
          /\ \/ Ch(rest, p) = "\n"
             \/ p < Len(rest) /\ IsSpace(Ch(rest, p)) /\ IsSpace(Ch(rest, p + 1))

\* the for loop over lines[:4] of the address section from index idx (0-based)
RECURSIVE AddressParts(_, _)
AddressParts(section_lines, idx) ==
    IF idx >= Len(section_lines) \/ idx >= 4 THEN <<>>
    ELSE LET line == section_lines[idx + 1]
         IN IF idx = 0
            THEN <<Strip(RemoveSub(line, "Property:"))>> \o AddressParts(section_lines, idx + 1)
            ELSE IF /\ Strip(line) # ""
                    /\ ~ContainsAny(Lower(line), {"claim rep", "business:", "position:", "company:"})
                 THEN <<Strip(line)>> \o AddressParts(section_lines, idx + 1)
                 ELSE <<>>

\* the property_address found in text, <<>> when the search does not match
AddressSearch(text) ==
    LET hits == {k \in LabelPositions(text, "Property:") : PropertyMatchesAt(text, k)}
    IN IF hits = {} THEN <<>>
       ELSE LET address_start == CHOOSE k \in hits : \A m \in hits : k <= m
                address_section == SubSeq(text, address_start,
                                          IF address_start + 199 < Len(text)
                                          THEN address_start + 199 ELSE Len(text))
            IN <<JoinWith(AddressParts(SplitOn(address_section, "\n"), 0), " ")>>

\* _extract_header_data that also stores the whole units of a 'Deductible:'
\* amount as the deductible field
extract_header_data_with_deductible(header, text) ==
    LET name_match == NameSearch(text)
        address == AddressSearch(text)
        claim_match == FieldSearch(text, "Claim Number:", "(\\d+)")
        policy_match == FieldSearch(text, "Policy Number:", "([\\d-]+)")
        dol_match == FieldSearch(text, "Date of Loss:", "(\\d{1,2}/\\d{1,2}/\\d{2,4})")
        deductible_match == FieldSearch(text, "Deductible:", "(\\d+)")
        named == IF name_match = <<>> THEN header
                 ELSE ("insured_name" :> Strip(name_match[1])) @@ header
        fields == SetField(SetField(SetField(SetField(named, "property_address", address),
                                             "claim_number", claim_match),
                                    "policy_number", policy_match),
                           "date_of_loss", dol_match)
    IN IF deductible_match = <<>> THEN fields
       ELSE ("deductible" :> DigitsValue(deductible_match[1]) * 1000) @@ fields

_extract_header_data(header, text) ==
    LET name_match == NameSearch(text)
        address == AddressSearch(text)
        claim_match == FieldSearch(text, "Claim Number:", "(\\d+)")
        policy_match == FieldSearch(text, "Policy Number:", "([\\d-]+)")
        dol_match == FieldSearch(text, "Date of Loss:", "(\\d{1,2}/\\d{1,2}/\\d{2,4})")
        named == IF name_match = <<>> THEN header
                 ELSE ("insured_name" :> Strip(name_match[1])) @@ header
    IN SetField(SetField(SetField(SetField(named, "property_address", address),
                                  "claim_number", claim_match),
                         "policy_number", policy_match),
                "date_of_loss", dol_match)

(***************************************************************************)
(* Deduplication, aggregation, ordering, response.                         *)
(***************************************************************************)
DedupKey(item) == <<Upper(Strip(item.description)), item.quantity, Upper(item.unit)>>

\* the loop of _remove_duplicate_line_items over items with the keys seen so far
RECURSIVE UniqueItems(_, _)
UniqueItems(items, seen) ==
    IF items = <<>> THEN <<>>
    ELSE LET key == DedupKey(Head(items))
         IN IF key \notin seen
            THEN <<Head(items)>> \o UniqueItems(Tail(items), seen \cup {key})
            ELSE UniqueItems(Tail(items), seen)

\* the same loop keeping the last item of every key instead of the first
RECURSIVE UniqueItemsKeepLast(_, _)
UniqueItemsKeepLast(items, seen) ==
    IF items = <<>> THEN <<>>
    ELSE LET key == DedupKey(Head(items))
         IN IF \E k \in 2..Len(items) : DedupKey(items[k]) = key
            THEN UniqueItemsKeepLast(Tail(items), seen)
            ELSE <<Head(items)>> \o UniqueItemsKeepLast(Tail(items), seen)

remove_duplicates_keep_last(items) == UniqueItemsKeepLast(items, {})

_remove_duplicate_line_items(items) == UniqueItems(items, {})

CategoryIndex(cats, name) ==
    IF \E k \in 1..Len(cats) : cats[k].name = name
    THEN CHOOSE k \in 1..Len(cats) : cats[k].name = name
    ELSE 0

NewCategory(name) ==
    [name |-> name, rcv |-> 0, depreciation |-> 0, acv |-> 0, item_count |-> 0,
     unique_items |-> <<>>]

\* the body of the for loop of _build_categories_from_items for one item
AddToCategories(cats, item) ==
    LET with == IF CategoryIndex(cats, item.category) = 0
                THEN Append(cats, NewCategory(item.category))
                ELSE cats
        k == CategoryIndex(with, item.category)
        item_desc == Strip(item.description)
        old == with[k]
    IN [with EXCEPT ![k] =
           [name |-> old.name,
            rcv |-> old.rcv + item.rcv,
            depreciation |-> old.depreciation + item.depreciation,
            acv |-> old.acv + item.acv,
            item_count |-> old.item_count + 1,
            unique_items |-> IF \E m \in 1..Len(old.unique_items) : old.unique_items[m] = item_desc
                             THEN old.unique_items
                             ELSE Append(old.unique_items, item_desc)]]

RECURSIVE _build_categories_from_items(_, _)
_build_categories_from_items(cats, items) ==
    IF items = <<>> THEN cats
    ELSE _build_categories_from_items(AddToCategories(cats, Head(items)), Tail(items))

_get_category_priority_order ==
    <<"CLEANING", "GENERAL DEMOLITION", "WATER EXTRACTION & REMEDIATION", "TEMPORARY REPAIRS">>

\* get_sort_key without the priority list
sort_key_by_name(cat) == <<1, 0, cat.name>>

\* get_sort_key of _sort_categories
get_sort_key(cat) ==
    LET priority_order == _get_category_priority_order
    IN IF \E k \in 1..Len(priority_order) : priority_order[k] = cat.name
       THEN <<0, (CHOOSE k \in 1..Len(priority_order) : priority_order[k] = cat.name) - 1, cat.name>>
       ELSE <<1, 0, cat.name>>

\* tuple comparison a < b of two sort keys
KeyLess(a, b) ==
    \/ a[1] < b[1]
    \/ a[1] = b[1] /\ a[2] < b[2]
    \/ a[1] = b[1] /\ a[2] = b[2] /\ StrLess(a[3], b[3])

\* sorted(...) on a sequence of [key, value] pairs: stable, an element goes
\* after the elements whose key is not greater
RECURSIVE SortedPairs(_)
SortedPairs(pairs) ==
    IF pairs = <<>> THEN <<>>
    ELSE LET rest == SortedPairs(SubSeq(pairs, 1, Len(pairs) - 1))
             x == pairs[Len(pairs)]
             n == Cardinality({k \in 1..Len(rest) : ~KeyLess(x.key, rest[k].key)})
         IN SubSeq(rest, 1, n) \o <<x>> \o SubSeq(rest, n + 1, Len(rest))

_sort_categories(cats) ==
    LET pairs == [k \in 1..Len(cats) |-> [key |-> get_sort_key(cats[k]), value |-> cats[k]]]
        ordered == SortedPairs(pairs)
    IN [k \in 1..Len(cats) |-> ordered[k].value]

RECURSIVE SumOf(_, _)
SumOf(items, field) ==
    IF items = <<>> THEN 0 ELSE Head(items)[field] + SumOf(Tail(items), field)

\* header_data.get('deductible', 0)
Deductible(header) == IF "deductible" \in DOMAIN header THEN header["deductible"] ELSE 0

\* the success branch of _build_response
SuccessResponse(items, cats, header, total_rcv, total_depreciation, total_acv) ==
    [success |-> TRUE,
     header |-> header,
     line_items |-> items,
     categories |-> _sort_categories(cats),
     totals |-> [rcv |-> Round2(total_rcv),
                 depreciation |-> Round2(total_depreciation),
                 acv |-> Round2(total_acv),
                 deductible |-> Deductible(header),
                 net_claim |-> Round2(total_acv - Deductible(header))],
     metadata |-> [total_line_items |-> Len(items),
                   total_categories |-> Len(cats),
                   rooms |-> {items[k].room : k \in {m \in 1..Len(items) : items[m].room # None}},
                   duplicates_removed |-> 0]]

\* _build_response without the check for an empty item list
build_response_no_failure(items, cats, header) ==
    SuccessResponse(items, cats, header, SumOf(items, "rcv"),
                    SumOf(items, "depreciation"), SumOf(items, "acv"))

\* _build_response with the totals taken from the category summaries
build_response_category_totals(items, cats, header) ==
    IF items = <<>>
    THEN [success |-> FALSE, error |-> "No line items found in estimate"]
    ELSE SuccessResponse(items, cats, header, SumOf(cats, "rcv"),
                         SumOf(cats, "depreciation"), SumOf(cats, "acv"))

_build_response(items, cats, header) ==
    IF items = <<>>
    THEN [success |-> FALSE, error |-> "No line items found in estimate"]
    ELSE LET total_rcv == SumOf(items, "rcv")
             total_depreciation == SumOf(items, "depreciation")
             total_acv == SumOf(items, "acv")
         IN SuccessResponse(items, cats, header, total_rcv, total_depreciation, total_acv)

(***************************************************************************)
(* Inputs of the model.                                                    *)
(***************************************************************************)
\* groups of text lines an estimate is assembled from
Blocks == {
    "5. Remove wet drywall\n5 120.00 SF 1.25 150.00 (30.00) 120.00",
    "6. REMOVE WET DRYWALL\n6 120 SF 2.50 300.004 (60.00) 240.00",
    "Kitchen\n7a. Insulated exterior door\n1.00 EA\n250.00\n15.00\n0.00\n265.004\n<26.50>\n238.50\nwith lockset",
    "8. Clean floor\n2 EA\n1\n2\n3\n4\n5",
    "9. Paint walls\n9 1.2.3 SF 1.00 1.00 (0.00) 1.00",
    "10. Carpet pad\n12. SF\n1.00\n0.00\n0.00\n12.00\n(2.00)\n10.00",
    "\n1.Paint\n5 120.00 SF 1.25 150.00 (30.00) 120.00",
    "Insured: Jo O'Neil  Home: 555\nProperty: 1 Main St\nTampa, FL\nClaim Rep.: Al\nClaim Number: 123\nTotal: 1,234.00",
    "11. Floor perimeter - 1st floor\n  11 40.00 LF 0.50 20.00 (0.00) 20.00",
    "  Master Bedroom\n3. Seal slab\n10.00 SF 1.00 10.00 (0.00) 10.00\n4. Seal floor\n1.00 EA\n1\n2\n3\n4\n5\n6\nab\n2nd coat",
    "12. Attic batt\n2.00 EA\n1.00\n0.10\n0.20\n2.30\n(0.30)\n2.00\nand clean up\n<1.50>\nTotal clean\nremove debris\nx12\nx13\nx14\nx15"
}

BlockSeqs == UNION {[1..n -> Blocks] : n \in 0..MaxBlocks}
Texts == {JoinWith(bs, "\n") : bs \in BlockSeqs}

\* phrases a description is assembled from
Phrases == {
    "Insulated exterior door", "Floor perimeter - 1st floor", "Deduct for used cabinet",
    "insulation", "Door", "less ", "Credit For", "PERIMETER", "floor", "cabinet",
    "clean", "tarp", "duct", "water", "Seal", "blown-in", "patio door"
}

PhraseSeqs == UNION {[1..n -> Phrases] : n \in 0..MaxWords}
Descriptions == {JoinWith(ps, " ") : ps \in PhraseSeqs}

\* category names handed to the sorter
CategoryNames == {"ZEBRA", "CLEANING", "APPLE", "GENERAL DEMOLITION",
                  "WATER EXTRACTION & REMEDIATION", "TEMPORARY REPAIRS", "DOORS", "GENERAL"}

CategoryLists ==
    {cs \in UNION {[1..n -> CategoryNames] : n \in 0..MaxCats} :
        \A a, b \in DOMAIN cs : a # b => cs[a] # cs[b]}

(***************************************************************************)
(* The parser as a state machine.                                          *)
(***************************************************************************)
ParserIdle ==
    /\ pc = "idle"
    /\ lines = <<>>
    /\ i = 0
    /\ current_room = None
    /\ line_items = <<>>
    /\ categories = <<>>
    /\ header_data = <<>>
    /\ extracted = <<>>
    /\ results = <<>>

NoCall ==
    /\ description = None
    /\ category = None
    /\ unsorted = <<>>
    /\ sorted = <<>>

\* no parse_pdf call in progress
NoFile ==
    /\ file = <<>>
    /\ attempts = <<>>
    /\ returned = <<>>

\* no request of the HTTP service in progress
NoRequest ==
    /\ uploads = <<>>
    /\ fs = <<>>
    /\ handler = <<>>
    /\ responses = <<>>

\* XactimateParser() and the text of the document to parse
Init ==
    /\ doc \in Texts
    /\ ParserIdle
    /\ NoCall
    /\ NoFile
    /\ NoRequest

\* entry of a parse: _extract_header_data, then the start of
\* _extract_line_items_gps_format
ParseBegin ==
    /\ pc = "idle"
    /\ Len(results) < MaxParses
    /\ header_data' = _extract_header_data(header_data, doc)
    /\ lines' = SplitOn(doc, "\n")
    /\ i' = 0
    /\ current_room' = None
    /\ pc' = "scan"
    /\ UNCHANGED <<doc, line_items, categories, extracted, results, catVars, sortVars, pdfVars, appVars>>

\* ScanLine leaving the loop when the block after an item header yields no item
ScanLineAbortOnError ==
    /\ pc = "scan"
    /\ i < Len(lines)
    /\ current_room' = ScanRoom(lines, i, current_room)
    /\ line_items' = line_items \o ScanItems(line_items, lines, i, current_room')
    /\ i' = IF ItemMatches(Strip(lines[i + 1])) /\ line_items' = line_items
            THEN Len(lines)
            ELSE i + 1
    /\ UNCHANGED <<doc, pc, lines, categories, header_data, extracted, results,
                   catVars, sortVars, pdfVars, appVars>>

\* ScanLine with the room check made after the item of the line is built
ScanLineRoomAfterItem ==
    /\ pc = "scan"
    /\ i < Len(lines)
    /\ current_room' = ScanRoom(lines, i, current_room)
    /\ line_items' = line_items \o ScanItems(line_items, lines, i, current_room)
    /\ i' = i + 1
    /\ UNCHANGED <<doc, pc, lines, categories, header_data, extracted, results,
                   catVars, sortVars, pdfVars, appVars>>

\* one iteration of the while loop of _extract_line_items_gps_format
ScanLine ==
    /\ pc = "scan"
    /\ i < Len(lines)
    /\ current_room' = ScanRoom(lines, i, current_room)
    /\ line_items' = line_items \o ScanItems(line_items, lines, i, current_room')
    /\ i' = i + 1
    /\ UNCHANGED <<doc, pc, lines, categories, header_data, extracted, results,
                   catVars, sortVars, pdfVars, appVars>>

\* loop exit, then _remove_duplicate_line_items
RemoveDuplicates ==
    /\ pc = "scan"
    /\ i >= Len(lines)
    /\ extracted' = line_items
    /\ line_items' = _remove_duplicate_line_items(line_items)
    /\ pc' = "build"
    /\ UNCHANGED <<doc, lines, i, current_room, categories, header_data, results,
                   catVars, sortVars, pdfVars, appVars>>

BuildCategories ==
    /\ pc = "build"
    /\ categories' = _build_categories_from_items(categories, line_items)
    /\ pc' = "respond"
    /\ UNCHANGED <<doc, lines, i, current_room, line_items, header_data, extracted,
                   results, catVars, sortVars, pdfVars, appVars>>

\* _build_response and the return of the parse
BuildResponse ==
    /\ pc = "respond"
    /\ results' = Append(results, _build_response(line_items, categories, header_data))
    /\ pc' = "idle"
    /\ lines' = <<>>
    /\ i' = 0
    /\ current_room' = None
    /\ UNCHANGED <<doc, line_items, categories, header_data, extracted, catVars, sortVars, pdfVars, appVars>>

Next ==
    \/ ParseBegin
    \/ ScanLine
    \/ RemoveDuplicates
    \/ BuildCategories
    \/ BuildResponse

Spec == Init /\ [][Next]_vars

(***************************************************************************)
(* Direct calls of the categorizer.                                        *)
(***************************************************************************)
InitCat ==
    /\ doc = ""
    /\ ParserIdle
    /\ description \in Descriptions
    /\ category = None
    /\ unsorted = <<>>
    /\ sorted = <<>>
    /\ NoFile
    /\ NoRequest

DetermineCategory ==
    /\ category = None
    /\ description # None
    /\ category' = _determine_category(description)
    /\ UNCHANGED <<parserVars, description, sortVars, pdfVars, appVars>>

NextCat == DetermineCategory

SpecCat == InitCat /\ [][NextCat]_vars

(***************************************************************************)
(* Direct calls of the category sorter.                                    *)
(***************************************************************************)
InitSort ==
    /\ doc = ""
    /\ ParserIdle
    /\ description = None
    /\ category = None
    /\ unsorted \in {[k \in DOMAIN cs |-> NewCategory(cs[k])] : cs \in CategoryLists}
    /\ sorted = <<>>
    /\ NoFile
    /\ NoRequest

SortCategories ==
    /\ sorted = <<>>
    /\ sorted' = <<_sort_categories(unsorted)>>
    /\ UNCHANGED <<parserVars, catVars, unsorted, pdfVars, appVars>>

NextSort == SortCategories

SpecSort == InitSort /\ [][NextSort]_vars

(***************************************************************************)
(* parse_pdf: the two text-extraction providers and the fallback.          *)
(***************************************************************************)
\* what a provider makes of a file: the text of its pages, or an exception
Extracted(text) == [ok |-> TRUE, text |-> text]
ExtractError == [ok |-> FALSE, text |-> ""]

\* except Exception as e: return {'success': False, 'error': str(e)}
ExceptionResult == [success |-> FALSE, error |-> "extraction error"]

\* texts the providers extract from the files handed to parse_pdf
PdfTexts == {
    "",
    "5. Remove wet drywall\n5 120.00 SF 1.25 150.00 (30.00) 120.00",
    "Insured: Jo O'Neil  Home: 555\nProperty: 1 Main St\nTampa, FL\nClaim Rep.: Al\nClaim Number: 123",
    "Property: 2 Oak Ave\nPolicy Number: 77-1\nKitchen\n6. Clean floor\n6 2.00 EA 3.00 6.00 (1.00) 5.00",
    "PROPERTY: 9 Elm Rd\nDeductible: 500.00\nCompany: Acme\n8. Clean floor\n8 1.00 EA 2.00 2.00 (0.00) 2.00"
}

Extractions == {Extracted(t) : t \in PdfTexts} \cup {ExtractError}

Files == [pymupdf : Extractions, pdfplumber : Extractions]

\* XactimateParser(): the fields set by __init__
NewParser == [header_data |-> <<>>, line_items |-> <<>>, categories |-> <<>>]

\* the while loop of _extract_line_items_gps_format from index idx to the end
RECURSIVE ScanAll(_, _, _, _)
ScanAll(items, text_lines, idx, room) ==
    IF idx >= Len(text_lines) THEN items
    ELSE LET next_room == ScanRoom(text_lines, idx, room)
         IN ScanAll(items \o ScanItems(items, text_lines, idx, next_room),
                    text_lines, idx + 1, next_room)

\* the body of _parse_with_pymupdf and _parse_with_pdfplumber once the text
\* is read: the fields of the parser afterwards, and the result
RunHelper(self, text) ==
    LET header == _extract_header_data(self.header_data, text)
        found == ScanAll(self.line_items, SplitOn(text, "\n"), 0, None)
        items == _remove_duplicate_line_items(found)
        cats == _build_categories_from_items(self.categories, items)
    IN [header_data |-> header, line_items |-> items, categories |-> cats,
        result |-> _build_response(items, cats, header)]

\* XactimateParser() and the file at the path handed to parse_pdf
InitPdf ==
    /\ doc = ""
    /\ ParserIdle
    /\ NoCall
    /\ file \in Files
    /\ attempts = <<>>
    /\ returned = <<>>
    /\ NoRequest

\* entry of _parse_with_pymupdf or _parse_with_pdfplumber: the provider opens
\* the file and reads its text, then _extract_header_data and the start of
\* _extract_line_items_gps_format; a provider's exception ends the helper
\* with a failure result
AttemptBegin(provider) ==
    /\ attempts' = Append(attempts, provider)
    /\ IF file[provider].ok
       THEN /\ doc' = file[provider].text
            /\ header_data' = _extract_header_data(header_data, doc')
            /\ lines' = SplitOn(doc', "\n")
            /\ i' = 0
            /\ current_room' = None
            /\ pc' = "scan"
            /\ UNCHANGED results
       ELSE /\ results' = Append(results, ExceptionResult)
            /\ UNCHANGED <<doc, header_data, lines, i, current_room, pc>>
    /\ UNCHANGED <<file, returned, line_items, categories, extracted,
                   catVars, sortVars, appVars>>

\* parse_pdf: result = self._parse_with_pymupdf(filepath)
ParsePdfBegin ==
    /\ pc = "idle"
    /\ attempts = <<>>
    /\ AttemptBegin("pymupdf")

\* parse_pdf calling the second provider whatever the first result is
ParsePdfFallbackAlways ==
    /\ pc = "idle"
    /\ attempts = <<"pymupdf">>
    /\ Len(results) = 1
    /\ returned = <<>>
    /\ AttemptBegin("pdfplumber")

\* parse_pdf: the first result is not a success,
\* result = self._parse_with_pdfplumber(filepath)
ParsePdfFallback ==
    /\ pc = "idle"
    /\ attempts = <<"pymupdf">>
    /\ Len(results) = 1
    /\ ~results[1].success
    /\ AttemptBegin("pdfplumber")

\* parse_pdf: return result
ParsePdfReturn ==
    /\ pc = "idle"
    /\ returned = <<>>
    /\ Len(results) = Len(attempts)
    /\ \/ Len(results) = 1 /\ results[1].success
       \/ Len(results) = 2
    /\ returned' = <<results[Len(results)]>>
    /\ UNCHANGED <<parserVars, file, attempts, catVars, sortVars, appVars>>

NextPdf ==
    \/ ParsePdfBegin
    \/ ScanLine
    \/ RemoveDuplicates
    \/ BuildCategories
    \/ BuildResponse
    \/ ParsePdfFallback
    \/ ParsePdfReturn

SpecPdf == InitPdf /\ [][NextPdf]_vars

(***************************************************************************)
(* app.py: concurrent calls of parse_estimate.                             *)
(***************************************************************************)
\* the two requests handled at the same time
Requests == {1, 2}

\* secure_filename(file.filename) of the uploads
FileNames == {"estimate.pdf", "other.pdf"}

\* the uploaded files, as what the providers extract from them
UploadContents == {
    [pymupdf |-> Extracted("5. Remove wet drywall\n5 120.00 SF 1.25 150.00 (30.00) 120.00"),
     pdfplumber |-> Extracted("5. Remove wet drywall\n5 120.00 SF 1.25 150.00 (30.00) 120.00")],
    [pymupdf |-> Extracted("Claim Number: 123"),
     pdfplumber |-> Extracted("Kitchen\n6. Clean floor\n6 2.00 EA 3.00 6.00 (1.00) 5.00")],
    [pymupdf |-> ExtractError, pdfplumber |-> ExtractError]
}

\* parse_pdf as a function of what the providers read at each attempt;
\* first_read and second_read are <<>> when the file is missing, else <<file>>
ParseReads(first_read, second_read) ==
    LET first == IF first_read # <<>> /\ first_read[1].pymupdf.ok
                 THEN RunHelper(NewParser, first_read[1].pymupdf.text)
                 ELSE NewParser @@ [result |-> ExceptionResult]
        second == IF second_read # <<>> /\ second_read[1].pdfplumber.ok
                  THEN RunHelper(first, second_read[1].pdfplumber.text)
                  ELSE [result |-> ExceptionResult] @@ first
    IN IF first.result.success THEN first.result ELSE second.result

\* jsonify(result), 200 or 422
ResultResponse(result) ==
    [status |-> IF result.success THEN 200 ELSE 422, body |-> result]

\* the response of the except branch of parse_estimate
ErrorResponse ==
    [status |-> 500,
     body |-> [success |-> FALSE, error |-> "Internal server error processing PDF"]]

\* what parse_estimate answers when it is the only request
AloneResponse(content) == ResultResponse(ParseReads(<<content>>, <<content>>))

ReadFile(name) == IF name \in DOMAIN fs THEN <<fs[name]>> ELSE <<>>

InitApp ==
    /\ doc = ""
    /\ ParserIdle
    /\ NoCall
    /\ NoFile
    /\ uploads \in [Requests -> [filename : FileNames, content : UploadContents]]
    /\ fs = <<>>
    /\ handler = [r \in Requests |-> [pc |-> "save", parser |-> NewParser, result |-> <<>>]]
    /\ responses = [r \in Requests |-> <<>>]

\* file.save(filepath); parser = XactimateParser()
SaveUpload(r) ==
    /\ handler[r].pc = "save"
    /\ fs' = (uploads[r].filename :> uploads[r].content) @@ fs
    /\ handler' = [handler EXCEPT ![r].pc = "first"]
    /\ UNCHANGED <<parserVars, catVars, sortVars, pdfVars, uploads, responses>>

\* parse_pdf: entry of _parse_with_pymupdf, or after its failure of
\* _parse_with_pdfplumber, on the file now at filepath: the provider reads
\* the text, then _extract_header_data, _extract_line_items_gps_format and
\* _remove_duplicate_line_items; a missing file or a provider's exception ends
\* the helper with a failure result
OpenAndExtract(r) ==
    /\ handler[r].pc \in {"first", "second"}
    /\ LET provider == IF handler[r].pc = "first" THEN "pymupdf" ELSE "pdfplumber"
           read == ReadFile(uploads[r].filename)
           self == handler[r].parser
       IN IF read # <<>> /\ read[1][provider].ok
          THEN handler' = [handler EXCEPT
                   ![r].pc = IF handler[r].pc = "first" THEN "first_build" ELSE "second_build",
                   ![r].parser.header_data =
                       _extract_header_data(self.header_data, read[1][provider].text),
                   ![r].parser.line_items =
                       _remove_duplicate_line_items(
                           ScanAll(self.line_items, SplitOn(read[1][provider].text, "\n"),
                                   0, None))]
          ELSE handler' = [handler EXCEPT
                   ![r].pc = IF handler[r].pc = "first" THEN "second" ELSE "remove",
                   ![r].result = <<ExceptionResult>>]
    /\ UNCHANGED <<parserVars, catVars, sortVars, pdfVars, uploads, fs, responses>>

\* the end of the helper: _build_categories_from_items and _build_response;
\* parse_pdf returns a successful or a second result and else falls back
BuildAndReturn(r) ==
    /\ handler[r].pc \in {"first_build", "second_build"}
    /\ LET self == handler[r].parser
           cats == _build_categories_from_items(self.categories, self.line_items)
           result == _build_response(self.line_items, cats, self.header_data)
       IN handler' = [handler EXCEPT
              ![r].pc = IF handler[r].pc = "first_build" /\ ~result.success
                        THEN "second" ELSE "remove",
              ![r].parser.categories = cats,
              ![r].result = <<result>>]
    /\ UNCHANGED <<parserVars, catVars, sortVars, pdfVars, uploads, fs, responses>>

\* os.remove(filepath) and the response; a missing file raises and the
\* except branch answers
RemoveAndRespond(r) ==
    /\ handler[r].pc = "remove"
    /\ IF uploads[r].filename \in DOMAIN fs
       THEN /\ fs' = [n \in DOMAIN fs \ {uploads[r].filename} |-> fs[n]]
            /\ responses' = [responses EXCEPT ![r] = <<ResultResponse(handler[r].result[1])>>]
       ELSE /\ fs' = fs
            /\ responses' = [responses EXCEPT ![r] = <<ErrorResponse>>]
    /\ handler' = [handler EXCEPT ![r].pc = "done"]
    /\ UNCHANGED <<parserVars, catVars, sortVars, pdfVars, uploads>>

NextApp ==
    \E r \in Requests :
        \/ SaveUpload(r)
        \/ OpenAndExtract(r)
        \/ BuildAndReturn(r)
        \/ RemoveAndRespond(r)

SpecApp == InitApp /\ [][NextApp]_vars

(***************************************************************************)
(* Properties.                                                             *)
(***************************************************************************)
TextLines(text) == SplitOn(text, "\n")

\* some trimmed line of text has the item-header shape
HasItemHeader(text) ==
    LET ls == TextLines(text)
    IN \E k \in 1..Len(ls) : ItemMatches(Strip(ls[k]))

FailureResult == [success |-> FALSE, error |-> "No line items found in estimate"]

\* C1: when no trimmed line of the text has the item-header shape, the first
\* parse of a fresh parser returns the failure result with the reason
\* 'No line items found in estimate' and nothing else (no header, line_items,
\* categories or totals).
C1_NoHeaderFails ==
    (pc = "idle" /\ Len(results) >= 1 /\ ~HasItemHeader(doc)) => results[1] = FailureResult

C1_Witness ==
    /\ Len(results) >= 1
    /\ ~HasItemHeader(doc)
    /\ Contains(doc, "1.Paint")
    /\ results[1] = FailureResult

\* a line converts to a number: a decimal numeral once $ , < > ( ) are removed
IsNumericLine(s) ==
    LET cleaned == Strip(RemoveChars(s, "$,<>()"))
    IN cleaned # "" /\ ParseFloat(cleaned).ok

\* the seven trimmed lines after the header at index k (1-based), if present
BlockAfter(ls, k) == [m \in 1..7 |-> Strip(ls[k + m])]

\* the block after the header at index k as the claim words it: a line of the
\* single-line shape, or seven non-blank lines, the first starting with
\* quantity and unit, the next six numeric
WellFormedAsClaimed(ls, k) ==
    /\ ItemMatches(Strip(ls[k]))
    /\ k < Len(ls)
    /\ \/ SingleMatches(Strip(ls[k + 1]))
       \/ /\ k + 7 <= Len(ls)
          /\ \A m \in 1..7 : BlockAfter(ls, k)[m] # ""
          /\ QtyMatches(BlockAfter(ls, k)[1])
          /\ \A m \in 2..7 : IsNumericLine(BlockAfter(ls, k)[m])

\* the same with every numeric token required to convert to a number and no
\* line of the multi-line block of item-header shape
WellFormedConvertible(ls, k) ==
    /\ ItemMatches(Strip(ls[k]))
    /\ k < Len(ls)
    /\ \/ LET parts == Split(Strip(ls[k + 1]))
          IN /\ SingleMatches(Strip(ls[k + 1]))
             /\ _parse_number(parts[2]).ok
             /\ \A m \in 4..7 : _parse_currency(parts[m]).ok
       \/ /\ k + 7 <= Len(ls)
          /\ \A m \in 1..7 : BlockAfter(ls, k)[m] # "" /\ ~StopMatches(BlockAfter(ls, k)[m])
          /\ QtyMatches(BlockAfter(ls, k)[1])
          /\ _parse_number(QtyGroup1(BlockAfter(ls, k)[1])).ok
          /\ \A m \in 2..7 : IsNumericLine(BlockAfter(ls, k)[m])

Succeeded(r) == r.success /\ r.line_items # <<>>

\* C2 as stated: every text with an item header immediately followed by a
\* matching single-line data line or by a multi-line block of seven non-blank
\* lines (quantity and unit, then six numeric lines) parses with success and a
\* non-empty line_items.
C2_AsClaimed ==
    LET ls == TextLines(doc)
    IN (pc = "idle" /\ Len(results) >= 1 /\ \E k \in 1..Len(ls) : WellFormedAsClaimed(ls, k))
          => Succeeded(results[1])

\* C2 amended: every text with an item header immediately followed by a
\* single-line data line whose numeric tokens convert to numbers, or by a
\* multi-line block of seven non-blank lines none of which has the item-header
\* shape, whose first line starts with a convertible quantity and a unit and
\* whose next six lines are numeric, parses with success and a non-empty
\* line_items.
C2_ConvertibleSucceeds ==
    LET ls == TextLines(doc)
    IN (pc = "idle" /\ Len(results) >= 1 /\ \E k \in 1..Len(ls) : WellFormedConvertible(ls, k))
          => \A n \in 1..Len(results) : Succeeded(results[n])

C2_Witness ==
    /\ Len(results) >= 1
    /\ doc = "5. Remove wet drywall\n5 120.00 SF 1.25 150.00 (30.00) 120.00"
    /\ WellFormedConvertible(TextLines(doc), 1)
    /\ Succeeded(results[1])

\* C3: parsing the same text twice on one parser instance returns the same
\* result both times (line_items, line numbers, category sums and item counts,
\* totals).
C3_Idempotent ==
    Len(results) >= 2 => results[2] = results[1]

\* index of the first item of items with the given deduplication key
FirstWithKey(items, key) ==
    CHOOSE k \in 1..Len(items) :
        /\ DedupKey(items[k]) = key
        /\ \A m \in 1..(k - 1) : DedupKey(items[m]) # key

Deduplicated == pc \in {"build", "respond"} \/ (pc = "idle" /\ results # <<>>)

\* C4: after deduplication the surviving items are exactly the first extracted
\* item of every key (uppercased trimmed description, quantity, uppercased
\* unit), unchanged and in extraction order; no two survivors share a key.
C4_DedupKeepsFirst ==
    Deduplicated =>
        /\ \A a, b \in 1..Len(line_items) :
              a < b => /\ DedupKey(line_items[a]) # DedupKey(line_items[b])
                       /\ FirstWithKey(extracted, DedupKey(line_items[a]))
                            < FirstWithKey(extracted, DedupKey(line_items[b]))
        /\ \A a \in 1..Len(line_items) :
              /\ \E k \in 1..Len(extracted) : DedupKey(extracted[k]) = DedupKey(line_items[a])
              /\ line_items[a] = extracted[FirstWithKey(extracted, DedupKey(line_items[a]))]
        /\ \A k \in 1..Len(extracted) :
              \E a \in 1..Len(line_items) : DedupKey(line_items[a]) = DedupKey(extracted[k])

\* a duplicate with another price was dropped and the kept item has its own rcv
C4_Witness ==
    /\ Deduplicated
    /\ Len(results) = 0
    /\ Len(line_items) = 1
    /\ Len(extracted) = 2
    /\ DedupKey(extracted[2]) = DedupKey(extracted[1])
    /\ extracted[2].rcv # extracted[1].rcv
    /\ line_items[1].rcv = extracted[1].rcv

\* C5: in every successful result metadata.duplicates_removed is the number
\* of items the deduplication dropped (extracted items minus line_items).
C5_DuplicatesRemovedCount ==
    (pc = "idle" /\ results # <<>> /\ results[Len(results)].success) =>
        results[Len(results)].metadata.duplicates_removed
            = Len(extracted) - Len(results[Len(results)].line_items)

\* C6 as stated: totals.rcv, totals.depreciation and totals.acv are the sums of
\* the fields over line_items and net_claim is totals.acv - totals.deductible.
C6_AsClaimed ==
    \A n \in 1..Len(results) :
        (pc = "idle" /\ results[n].success) =>
            /\ results[n].totals.rcv = SumOf(results[n].line_items, "rcv")
            /\ results[n].totals.depreciation = SumOf(results[n].line_items, "depreciation")
            /\ results[n].totals.acv = SumOf(results[n].line_items, "acv")
            /\ results[n].totals.net_claim
                 = results[n].totals.acv - results[n].totals.deductible

\* t is v rounded to two decimal places (t and v in thousandths)
IsRounded2(t, v) ==
    /\ t % 10 = 0
    /\ (IF t > v THEN t - v ELSE v - t) <= 5

\* C6 amended: totals.rcv, totals.depreciation and totals.acv are the sums of
\* the fields over line_items rounded to two decimal places, and net_claim is
\* totals.acv - totals.deductible.
C6_TotalsAreRoundedSums ==
    \A n \in 1..Len(results) :
        (pc = "idle" /\ results[n].success) =>
            /\ IsRounded2(results[n].totals.rcv, SumOf(results[n].line_items, "rcv"))
            /\ IsRounded2(results[n].totals.depreciation,
                          SumOf(results[n].line_items, "depreciation"))
            /\ IsRounded2(results[n].totals.acv, SumOf(results[n].line_items, "acv"))
            /\ results[n].totals.net_claim
                 = results[n].totals.acv - results[n].totals.deductible

\* a result whose rcv sum has a third decimal, on a second parse
C6_Witness ==
    /\ Len(results) >= 2
    /\ results[2].success
    /\ SumOf(results[2].line_items, "rcv") % 10 # 0
    /\ IsRounded2(results[2].totals.rcv, SumOf(results[2].line_items, "rcv"))

ClaimedPriority ==
    <<"CLEANING", "GENERAL DEMOLITION", "WATER EXTRACTION & REMEDIATION", "TEMPORARY REPAIRS">>

\* the category names of the model in ascending alphabetical order
Alphabetical ==
    <<"APPLE", "CLEANING", "DOORS", "GENERAL", "GENERAL DEMOLITION", "TEMPORARY REPAIRS",
      "WATER EXTRACTION & REMEDIATION", "ZEBRA">>

PositionIn(seq, x) == CHOOSE k \in 1..Len(seq) : seq[k] = x
IsPriority(name) == \E k \in 1..Len(ClaimedPriority) : ClaimedPriority[k] = name

\* name a is placed before name b by the claimed order
ClaimedBefore(a, b) ==
    \/ IsPriority(a) /\ ~IsPriority(b)
    \/ IsPriority(a) /\ IsPriority(b)
         /\ PositionIn(ClaimedPriority, a) < PositionIn(ClaimedPriority, b)
    \/ ~IsPriority(a) /\ ~IsPriority(b)
         /\ PositionIn(Alphabetical, a) < PositionIn(Alphabetical, b)

Names(cats) == [k \in DOMAIN cats |-> cats[k].name]

\* C7: the sorted categories are the given ones with the present priority
\* categories (CLEANING, GENERAL DEMOLITION, WATER EXTRACTION & REMEDIATION,
\* TEMPORARY REPAIRS) first in that order and the others after them in
\* ascending alphabetical order; {ZEBRA, CLEANING, APPLE} gives CLEANING, APPLE,
\* ZEBRA.
C7_CategoryOrder ==
    sorted # <<>> =>
        /\ Len(sorted[1]) = Len(unsorted)
        /\ {sorted[1][k] : k \in DOMAIN sorted[1]} = {unsorted[k] : k \in DOMAIN unsorted}
        /\ \A a, b \in DOMAIN sorted[1] :
              a < b => ClaimedBefore(sorted[1][a].name, sorted[1][b].name)
        /\ Names(unsorted) = <<"ZEBRA", "CLEANING", "APPLE">>
              => Names(sorted[1]) = <<"CLEANING", "APPLE", "ZEBRA">>

C7_Witness ==
    /\ sorted # <<>>
    /\ Names(unsorted) = <<"ZEBRA", "CLEANING", "APPLE">>
    /\ Names(sorted[1]) = <<"CLEANING", "APPLE", "ZEBRA">>

\* the keywords of the if statements placed before the first one returning label
KeywordsBefore(label) ==
    UNION {CategoryRules[k].any : k \in 1..(RuleIndex(label) - 1)}

\* index of the if statement that tests PERIMETER
PerimeterRule == CHOOSE k \in 1..Len(CategoryRules) : "PERIMETER" \in CategoryRules[k].any

DoorKeywords ==
    {"DOOR", "THRESHOLD", "DOOR HARDWARE", "DOOR KNOB", "DOOR HANDLE", "LOCKSET", "DEADBOLT"}
InsulationKeywords == {"INSULATION", "INSULATE", "BATT", "BLOWN-IN"}

\* C8: a description with a door keyword and no keyword of the rules before
\* the door rule (deduction notes, water extraction, cleaning, demolition,
\* temporary repairs) is classified DOORS, also when it has an insulation
\* keyword; 'Insulated exterior door' is DOORS.
C8_DoorBeforeInsulation ==
    category # None =>
        /\ (ContainsAny(Upper(description), DoorKeywords)
              /\ ~ContainsAny(Upper(description), KeywordsBefore("DOORS")))
             => category = "DOORS"
        /\ description = "Insulated exterior door" => category = "DOORS"

C8_Witness ==
    /\ category = "DOORS"
    /\ ContainsAny(Upper(description), InsulationKeywords)
    /\ ContainsAny(Upper(description), DoorKeywords)

\* C9: a description containing PERIMETER that has no keyword of any rule
\* placed before the perimeter rule is classified PAINTING & WOOD WALL FINISHES
\* and never a FLOOR COVERING category, although it may contain FLOOR;
\* 'Floor perimeter - 1st floor' is PAINTING & WOOD WALL FINISHES.
C9_FloorPerimeterIsPainting ==
    category # None =>
        /\ (Contains(Upper(description), "PERIMETER")
              /\ ~ContainsAny(Upper(description),
                              UNION {CategoryRules[k].any : k \in 1..(PerimeterRule - 1)}))
             => category = "PAINTING & WOOD WALL FINISHES"
        /\ description = "Floor perimeter - 1st floor"
             => category = "PAINTING & WOOD WALL FINISHES"

C9_Witness ==
    /\ category = "PAINTING & WOOD WALL FINISHES"
    /\ Contains(Upper(description), "PERIMETER")
    /\ Contains(Upper(description), "FLOOR")
    /\ ~ContainsAny(Upper(description), UNION {CategoryRules[k].any : k \in 1..(PerimeterRule - 1)})

DeductionMarkers == {"DEDUCTION", "DEDUCT FOR", "LESS ", "SUBTRACT", "CREDIT FOR"}

\* C10: a description containing a deduction or credit marker (DEDUCTION,
\* DEDUCT FOR, 'LESS ', SUBTRACT, CREDIT FOR) in any letter case is classified
\* GENERAL whatever else it contains; 'Deduct for used cabinet' is GENERAL.
C10_DeductionIsGeneral ==
    category # None =>
        /\ ContainsAny(Upper(description), DeductionMarkers) => category = "GENERAL"
        /\ description = "Deduct for used cabinet" => category = "GENERAL"

C10_Witness ==
    /\ category = "GENERAL"
    /\ Contains(description, "Deduct for")
    /\ Contains(Upper(description), "CABINET")

\* the number a token stands for, in thousandths
TokenValue(s) == ParseFloat(Strip(RemoveChars(s, "$,<>()"))).val

\* line idx (0-based) of ls is an item header and the next line is a data line
\* '<item number> <qty> <unit> <price> <rcv> (<depreciation>) <acv>'
SingleLineCase(ls, idx) ==
    /\ idx + 1 < Len(ls)
    /\ ItemMatches(Strip(ls[idx + 1]))
    /\ SingleMatches(Strip(ls[idx + 2]))
    /\ \A m \in {2, 4, 5, 6, 7} : IsNumericLine(Split(Strip(ls[idx + 2]))[m])

\* C11: a scan step at an item header followed by a data line '<item number>
\* <qty> <unit> <price> <rcv> (<depreciation>) <acv>' appends exactly one item;
\* its quantity is the token before the unit, its unit the unit token, its
\* unit_price, rcv, depreciation and acv the four tokens after the unit in that
\* order, and its tax and o_and_p are 0.
C11_SingleLineExtraction ==
    [][(pc = "scan" /\ i < Len(lines) /\ i' = i + 1 /\ SingleLineCase(lines, i)) =>
          LET parts == Split(Strip(lines[i + 2]))
              item == line_items'[Len(line_items')]
          IN /\ Len(line_items') = Len(line_items) + 1
             /\ SubSeq(line_items', 1, Len(line_items)) = line_items
             /\ item.quantity = TokenValue(parts[2])
             /\ item.unit = parts[3]
             /\ item.unit_price = TokenValue(parts[4])
             /\ item.rcv = TokenValue(parts[5])
             /\ item.depreciation = TokenValue(parts[6])
             /\ item.acv = TokenValue(parts[7])
             /\ item.tax = 0
             /\ item.o_and_p = 0]_vars

\* the example of the claim: '5. Remove wet drywall' and its data line have
\* been scanned
C11_Witness ==
    /\ pc = "scan"
    /\ i = 1
    /\ lines = <<"5. Remove wet drywall", "5 120.00 SF 1.25 150.00 (30.00) 120.00">>
    /\ SingleLineCase(lines, 0)
    /\ Len(line_items) = 1
    /\ line_items[1].quantity = 120000
    /\ line_items[1].unit = "SF"
    /\ line_items[1].unit_price = 1250
    /\ line_items[1].rcv = 150000
    /\ line_items[1].depreciation = 30000
    /\ line_items[1].acv = 120000
    /\ line_items[1].tax = 0
    /\ line_items[1].o_and_p = 0

\* line h (1-based) of ls satisfies the room-heading predicate
RoomHeading(ls, h) == _is_room_header_gps(Strip(ls[h]))

\* C12: every item a scan step extracts from the header on line i + 1 carries
\* as room the text of the last line up to that header that satisfies the
\* room-heading predicate, whatever was extracted or skipped in between.
C12_RoomPersists ==
    [][(pc = "scan" /\ i < Len(lines) /\ i' = i + 1) =>
          \A n \in (Len(line_items) + 1)..Len(line_items') :
              \A h \in 1..(i + 1) :
                  (RoomHeading(lines, h) /\ \A m \in (h + 1)..(i + 1) : ~RoomHeading(lines, m))
                      => line_items'[n].room = Strip(lines[h])]_vars

\* one heading, three item headers after it, the first skipped, the other two
\* extracted with the heading as room
C12_Witness ==
    /\ pc = "scan"
    /\ i = Len(lines)
    /\ Len(lines) > 1
    /\ RoomHeading(lines, 1)
    /\ \A m \in 2..Len(lines) : ~RoomHeading(lines, m)
    /\ Cardinality({k \in 1..Len(lines) : ItemMatches(Strip(lines[k]))}) = 3
    /\ Len(line_items) = 2
    /\ line_items[1].room = "Master Bedroom"
    /\ line_items[2].room = "Master Bedroom"
    /\ line_items[1].description # line_items[2].description

\* the labels of the taxonomy
Taxonomy ==
    {"GENERAL", "WATER EXTRACTION & REMEDIATION", "CLEANING", "GENERAL DEMOLITION",
     "TEMPORARY REPAIRS", "DOORS", "WINDOWS - SLIDING PATIO DOORS", "WINDOWS - ALUMINUM",
     "WINDOW TREATMENT", "MIRRORS & SHOWER DOORS", "APPLIANCES", "PLUMBING", "ELECTRICAL",
     "LIGHT FIXTURES", "HEAT, VENT & AIR CONDITIONING", "CABINETRY", "DRYWALL",
     "INTERIOR LATH & PLASTER", "STUCCO & EXTERIOR PLASTER", "FINISH CARPENTRY / TRIMWORK",
     "FINISH HARDWARE", "PAINTING & WOOD WALL FINISHES", "PANELING & WOOD WALL FINISHES",
     "WALLPAPER", "FLOOR COVERING - CERAMIC TILE", "FLOOR COVERING - CARPET",
     "FLOOR COVERING - STONE", "FLOOR COVERING - WOOD", "FLOOR COVERING - VINYL",
     "FLOOR COVERING - LAMINATE", "TILE", "FLOOR COVERING", "SOFFIT, FASCIA, & GUTTER",
     "INSULATION", "TOILET & BATH ACCESSORIES"}

\* the cascade entries whose keyword predicate holds on the uppercased text
Applicable(text) ==
    {k \in 1..Len(CategoryRules) : RuleApplies(CategoryRules[k], Upper(text))}

\* C13: the categorizer returns for every description exactly one label of the
\* taxonomy: the label of the first cascade entry whose keyword predicate holds
\* on the uppercased description, GENERAL when none holds; the description
\* written in capitals or in small letters gets the same label.
C13_FirstRuleWins ==
    category # None =>
        /\ category \in Taxonomy
        /\ Applicable(description) = {} => category = "GENERAL"
        /\ \A k \in Applicable(description) :
              (\A m \in Applicable(description) : k <= m) => category = CategoryRules[k].label
        /\ _determine_category(Upper(description)) = category
        /\ _determine_category(Lower(description)) = category

\* 'clean floor' in mixed case: the cleaning entry precedes the floor-covering
\* entry that also applies
C13_Witness ==
    /\ description = "clean Floor perimeter - 1st floor"
    /\ Cardinality(Applicable(description)) >= 2
    /\ Upper(description) # description
    /\ Lower(description) # description
    /\ category = "CLEANING"

\* number of items the parser held when the scan in progress began
ScanStart ==
    IF results # <<>> /\ results[Len(results)].success
    THEN Len(results[Len(results)].line_items)
    ELSE 0

\* C14: right after the scan the k-th item the scan extracted has line_number
\* k, and after deduplication the line numbers of line_items are strictly
\* increasing, every survivor keeping the number it was extracted with.
C14_LineNumbersFollowExtraction ==
    pc = "build" =>
        /\ \A k \in 1..(Len(extracted) - ScanStart) :
              extracted[ScanStart + k].line_number = k
        /\ \A a, b \in 1..Len(line_items) :
              a < b => line_items[a].line_number < line_items[b].line_number
        /\ \A a \in 1..Len(line_items) :
              \E k \in 1..Len(extracted) : extracted[k] = line_items[a]

Min(a, b) == IF a < b THEN a ELSE b

\* number of lines after the header on line idx + 1 that precede the first
\* blank line, the first line of item-header shape and the end of the
\* text, at most 14
CollectedCount(ls, idx) ==
    LET most == Min(14, Len(ls) - idx - 1)
        Data(m) == Strip(ls[idx + 1 + m]) # "" /\ ~ItemMatches(Strip(ls[idx + 1 + m]))
    IN CHOOSE n \in 0..most :
          /\ \A m \in 1..n : Data(m)
          /\ n < most => ~Data(n + 1)

Collected(ls, idx) == [m \in 1..CollectedCount(ls, idx) |-> Strip(ls[idx + 1 + m])]

\* the block after the header on line idx + 1 parses: a single-line data line
\* with numeric tokens, or at least 7 collected lines, the first starting with
\* quantity and unit and lines 2 to 7 numeric
BlockParses(ls, idx) ==
    /\ idx + 1 < Len(ls)
    /\ IF SingleMatches(Strip(ls[idx + 2]))
       THEN \A m \in {2, 4, 5, 6, 7} : IsNumericLine(Split(Strip(ls[idx + 2]))[m])
       ELSE /\ CollectedCount(ls, idx) >= 7
            /\ QtyMatches(Collected(ls, idx)[1])
            /\ IsNumericLine(QtyGroup1(Collected(ls, idx)[1]))
            /\ \A m \in 2..7 : IsNumericLine(Collected(ls, idx)[m])

IsHeaderLine(ls, idx) == ItemMatches(Strip(ls[idx + 1]))

\* C15: every scan step moves to the next line and leaves the items already
\* extracted unchanged; at a header whose block fails to parse (wrong shape,
\* fewer than 7 data lines, a non-numeric value) it adds no item, at a header
\* whose block parses it adds one, whatever failed before; the line index
\* never passes the number of lines, so the scan ends after one step per
\* line, and it ends with every line visited.
C15_MalformedItemSkipped ==
    /\ [][(pc = "scan" /\ i < Len(lines)) =>
             /\ pc' = "scan"
             /\ i' = i + 1
             /\ lines' = lines
             /\ Len(line_items') >= Len(line_items)
             /\ SubSeq(line_items', 1, Len(line_items)) = line_items
             /\ (IsHeaderLine(lines, i) /\ ~BlockParses(lines, i)) => line_items' = line_items
             /\ (IsHeaderLine(lines, i) /\ BlockParses(lines, i))
                    => Len(line_items') = Len(line_items) + 1]_vars
    /\ [](pc = "scan" => i <= Len(lines))
    /\ [](pc = "build" => i = Len(lines))

\* a header whose data line holds 1.2.3 as quantity was skipped and the item
\* after it extracted
C15_Witness ==
    /\ pc = "scan"
    /\ i = Len(lines)
    /\ Len(results) = 0
    /\ Len(lines) = 4
    /\ IsHeaderLine(lines, 0) /\ SingleMatches(lines[2]) /\ ~BlockParses(lines, 0)
    /\ IsHeaderLine(lines, 2) /\ BlockParses(lines, 2)
    /\ Len(line_items) = 1
    /\ line_items[1].description = ItemGroup2(lines[3])

\* the category summaries of a successful result agree with its line_items
CategoriesAgree(r) ==
    /\ SumOf(r.categories, "rcv") = SumOf(r.line_items, "rcv")
    /\ SumOf(r.categories, "depreciation") = SumOf(r.line_items, "depreciation")
    /\ SumOf(r.categories, "acv") = SumOf(r.line_items, "acv")
    /\ SumOf(r.categories, "item_count") = r.metadata.total_line_items
    /\ {r.categories[k].name : k \in 1..Len(r.categories)}
          = {r.line_items[k].category : k \in 1..Len(r.line_items)}

\* C16: in every successful result of any parse of a parser instance, the
\* sums of rcv, depreciation and acv over the categories equal the sums over
\* line_items, the item counts of the categories add up to
\* metadata.total_line_items, and the category names are the category labels
\* of the items.
C16_CategoriesAgreeWithItems ==
    \A n \in 1..Len(results) : results[n].success => CategoriesAgree(results[n])

\* s consists of exactly the six tokens 'qty unit price rcv (depreciation) acv'
SixTokenShape(s) ==
    LET parts == Split(s)
    IN /\ Len(parts) = 6
       /\ IsUnit(parts[2])
       /\ IsParenNum(parts[5])
       /\ \A m \in {1, 3, 4, 5, 6} : IsNumericLine(parts[m])

\* s consists of exactly the seven tokens 'item-number qty unit price rcv
\* (depreciation) acv'
SevenTokenShape(s) ==
    LET parts == Split(s)
    IN /\ Len(parts) = 7
       /\ IsAllDigits(parts[1])
       /\ IsUnit(parts[3])
       /\ IsParenNum(parts[6])
       /\ \A m \in {2, 4, 5, 6, 7} : IsNumericLine(parts[m])

\* the item of the single-line branch for the header on line idx + 1 whose
\* data line has its quantity at token q
SingleLineItem(ls, idx, q, count, room) ==
    LET parts == Split(Strip(ls[idx + 2]))
        desc == Strip(ItemGroup2(Strip(ls[idx + 1])))
    IN [line_number |-> count + 1,
        room |-> room,
        description |-> desc,
        quantity |-> TokenValue(parts[q]),
        unit |-> parts[q + 1],
        unit_price |-> TokenValue(parts[q + 2]),
        tax |-> 0,
        o_and_p |-> 0,
        rcv |-> TokenValue(parts[q + 3]),
        depreciation |-> TokenValue(parts[q + 4]),
        acv |-> TokenValue(parts[q + 5]),
        category |-> _determine_category(desc)]

\* C17 as stated: when the line after an item header consists of exactly the
\* six tokens 'qty unit price rcv (depreciation) acv', the scan step yields one
\* item of the single-line branch with those values and tax = o_and_p = 0.
C17_AsClaimed ==
    [][(pc = "scan" /\ i + 1 < Len(lines) /\ i' = i + 1
          /\ IsHeaderLine(lines, i) /\ SixTokenShape(Strip(lines[i + 2]))) =>
             line_items' = Append(line_items,
                 SingleLineItem(lines, i, 1, Len(line_items), current_room'))]_vars

\* C17 amended: when the line after an item header consists of exactly the
\* seven tokens 'item-number qty unit price rcv (depreciation) acv', the scan
\* step yields one item of the single-line branch with those values, the
\* description of the header and tax = o_and_p = 0.
C17_SevenTokenShape ==
    [][(pc = "scan" /\ i + 1 < Len(lines) /\ i' = i + 1
          /\ IsHeaderLine(lines, i) /\ SevenTokenShape(Strip(lines[i + 2]))) =>
             line_items' = Append(line_items,
                 SingleLineItem(lines, i, 2, Len(line_items), current_room'))]_vars

\* the floor perimeter item, its data line indented, has been extracted
C17_Witness ==
    /\ pc = "scan"
    /\ i = 1
    /\ Len(lines) = 2
    /\ IsHeaderLine(lines, 0)
    /\ SevenTokenShape(Strip(lines[2]))
    /\ Split(lines[2])[2] = "40.00"
    /\ line_items = <<SingleLineItem(lines, 0, 2, 0, None)>>
    /\ line_items[1].quantity = 40000
    /\ line_items[1].unit = "LF"

\* C18: at an item header whose next line does not match the single-line
\* shape, the lines collected are the lines after the header up to the first
\* blank line or item header, at most 14; an item is produced only if at least
\* 7 lines were collected and the first starts with quantity and unit, and
\* then its quantity and unit come from that line and its unit_price, tax,
\* o_and_p, rcv, depreciation and acv are the values of collected lines 2 to 7;
\* otherwise the items are left as they were.
C18_MultiLineExtraction ==
    [][(pc = "scan" /\ i + 1 < Len(lines) /\ i' = i + 1
          /\ IsHeaderLine(lines, i) /\ ~SingleMatches(Strip(lines[i + 2]))) =>
             LET c == Collected(lines, i)
                 item == line_items'[Len(line_items')]
             IN /\ CollectDataLines(lines, i + 1, i) = c
                /\ Len(c) <= 14
                /\ (Len(c) < 7 \/ ~QtyMatches(c[1])) => line_items' = line_items
                /\ line_items' # line_items =>
                      /\ Len(c) >= 7
                      /\ QtyMatches(c[1])
                      /\ Len(line_items') = Len(line_items) + 1
                      /\ SubSeq(line_items', 1, Len(line_items)) = line_items
                      /\ item.quantity = TokenValue(QtyGroup1(c[1]))
                      /\ item.unit = QtyGroup2(c[1])
                      /\ item.unit_price = TokenValue(c[2])
                      /\ item.tax = TokenValue(c[3])
                      /\ item.o_and_p = TokenValue(c[4])
                      /\ item.rcv = TokenValue(c[5])
                      /\ item.depreciation = TokenValue(c[6])
                      /\ item.acv = TokenValue(c[7])]_vars

\* the header '12. Attic batt' with 15 lines after it: 14 were collected and
\* the item has the values of lines 2 to 7
C18_Witness ==
    /\ pc = "scan"
    /\ i = 1
    /\ Len(lines) = 16
    /\ lines[1] = "12. Attic batt"
    /\ \A m \in 2..16 : lines[m] # "" /\ ~ItemMatches(lines[m])
    /\ CollectedCount(lines, 0) = 14
    /\ Len(line_items) = 1
    /\ line_items[1].quantity = 2000
    /\ line_items[1].unit = "EA"
    /\ line_items[1].unit_price = 1000
    /\ line_items[1].tax = 100
    /\ line_items[1].o_and_p = 200
    /\ line_items[1].rcv = 2300
    /\ line_items[1].depreciation = 300
    /\ line_items[1].acv = 2000

\* every character of s is a digit, a comma, a period, < or >
PurelyNumeric(s) ==
    s # "" /\ \A k \in 1..Len(s) : Ch(s, k) \in DigitSet \cup {",", ".", "<", ">"}

\* a collected line that extends the description
Continues(s) ==
    /\ ~PurelyNumeric(s)
    /\ Len(s) > 3
    /\ ~ContainsAny(Upper(s), {"TOTAL", "DESCRIPTION", "QUANTITY", "CONTINUED"})

\* the description of the header followed by the collected lines at positions
\* 8, 9 and 10 that extend it
ExtendedDescription(desc, c) ==
    LET Part(m) == IF m <= Len(c) /\ Continues(c[m]) THEN " " \o c[m] ELSE ""
    IN desc \o Part(8) \o Part(9) \o Part(10)

\* C19: the description of an item of the multi-line branch is the text of its
\* header followed, in order and separated by one space, by those of the
\* collected lines 8, 9 and 10 that are not purely numeric, are longer than 3
\* characters and contain none of TOTAL, DESCRIPTION, QUANTITY, CONTINUED in
\* any letter case; collected lines 11 to 14 never change it; the category is
\* that of the extended description.
C19_ContinuationText ==
    [][(pc = "scan" /\ i + 1 < Len(lines) /\ i' = i + 1
          /\ IsHeaderLine(lines, i) /\ ~SingleMatches(Strip(lines[i + 2]))
          /\ line_items' # line_items) =>
             LET item == line_items'[Len(line_items')]
                 desc == Strip(ItemGroup2(Strip(lines[i + 1])))
             IN /\ item.description = ExtendedDescription(desc, Collected(lines, i))
                /\ item.category = _determine_category(item.description)]_vars

\* '12. Attic batt': line 8 was appended, line 9 is numeric, line 10 holds
\* 'Total', line 11 would qualify but lies beyond position 10; the category
\* is that of the extended description, not of 'Attic batt'
C19_Witness ==
    /\ pc = "scan"
    /\ i = 1
    /\ lines[1] = "12. Attic batt"
    /\ Len(Collected(lines, 0)) = 14
    /\ Continues(Collected(lines, 0)[8])
    /\ PurelyNumeric(Collected(lines, 0)[9])
    /\ ~Continues(Collected(lines, 0)[10])
    /\ Continues(Collected(lines, 0)[11])
    /\ Len(line_items) = 1
    /\ line_items[1].description = "Attic batt and clean up"
    /\ line_items[1].category = "CLEANING"
    /\ _determine_category("Attic batt") = "INSULATION"

HvacKeywords ==
    {"HVAC", "AIR CONDITION", "FURNACE", "DUCT", "AC UNIT", "HEAT PUMP", "CONDENSER",
     "THERMOSTAT"}

WaterSignals == {"STRUCTURAL DRYING", "WATER"}

HvacLabel == "HEAT, VENT & AIR CONDITIONING"

WaterLabel == "WATER EXTRACTION & REMEDIATION"

\* no cascade entry before the HVAC entry, the water entry apart, applies to
\* the uppercased text
ReachesHvacRule(text) ==
    \A k \in Applicable(text) :
        k >= RuleIndex(HvacLabel) \/ CategoryRules[k].label = WaterLabel

\* C20: a description that contains an HVAC keyword and also signals
\* structural drying or water, and that no earlier entry of the cascade
\* claims, is not classified HEAT, VENT & AIR CONDITIONING but WATER
\* EXTRACTION & REMEDIATION.
C20_HvacWithWaterIsWater ==
    (/\ category # None
     /\ ContainsAny(Upper(description), HvacKeywords)
     /\ ContainsAny(Upper(description), WaterSignals)
     /\ ReachesHvacRule(description))
        => category # HvacLabel /\ category = WaterLabel

SlidingKeywords == {"PATIO DOOR", "SLIDING DOOR", "SLIDING GLASS"}

SlidingLabel == "WINDOWS - SLIDING PATIO DOORS"

\* C21: a description that contains PATIO DOOR, SLIDING DOOR or SLIDING GLASS
\* and no keyword of the deduction, water, cleaning, demolition and
\* temporary-repair entries (the entries before the door entry) is classified
\* WINDOWS - SLIDING PATIO DOORS.
C21_SlidingDoorIsWindow ==
    (/\ category # None
     /\ ContainsAny(Upper(description), SlidingKeywords)
     /\ \A k \in Applicable(description) : k >= RuleIndex("DOORS"))
        => category = SlidingLabel

\* descriptions a cascade entry is tried on: every description of the model
\* and every keyword of the cascade on its own
Candidates ==
    Descriptions \cup UNION {CategoryRules[k].any : k \in 1..Len(CategoryRules)}

\* the categorizer maps d to the label of entry k through entry k
ReachedBy(k, d) ==
    /\ k \in Applicable(d)
    /\ \A m \in Applicable(d) : k <= m
    /\ _determine_category(d) = CategoryRules[k].label

\* C22: every entry of the cascade is reachable: for each entry, PANELING &
\* WOOD WALL FINISHES, MIRRORS & SHOWER DOORS, WINDOW TREATMENT and TOILET &
\* BATH ACCESSORIES among them, some description is mapped to the entry's label
\* through that entry.
C22_EveryRuleReachable ==
    category # None =>
        \A k \in 1..Len(CategoryRules) :
            \E d \in Candidates \cup {description} : ReachedBy(k, d)

(***************************************************************************)
(* parse_pdf.                                                              *)
(***************************************************************************)
FallbackOrder ==
    /\ attempts \in {<<>>, <<"pymupdf">>, <<"pymupdf", "pdfplumber">>}
    /\ Len(results) <= Len(attempts)
    /\ Len(attempts) = 2 => ~results[1].success
    /\ Len(results) >= 1 /\ ~file.pymupdf.ok => ~results[1].success
    /\ returned # <<>> =>
          /\ "success" \in DOMAIN returned[1]
          /\ returned[1].success \in BOOLEAN
          /\ IF results[1].success
             THEN attempts = <<"pymupdf">> /\ returned[1] = results[1]
             ELSE attempts = <<"pymupdf", "pdfplumber">> /\ returned[1] = results[2]

\* a call that has not returned is inside an attempt whose scan index is
\* within the lines, or is about to start or to leave an attempt
CallProceeds ==
    returned = <<>> =>
        \/ pc = "idle" /\ Len(results) = Len(attempts)
        \/ pc = "scan" /\ i <= Len(lines) /\ Len(results) + 1 = Len(attempts)
        \/ pc \in {"build", "respond"} /\ Len(results) + 1 = Len(attempts)

\* C23: parse_pdf calls PyMuPDF first and pdfplumber exactly when the first
\* result has success = false (a provider exception gives such a result);
\* a successful first result is returned as it is; there are at most two
\* attempts, what is returned is a mapping that has a success flag, and no
\* exception leaves the call: until its return the call is in a step of one
\* of the two attempts.
C23_FallbackOrdering == FallbackOrder /\ CallProceeds

\* the first attempt failed, the second provider was called, and its
\* successful result was returned
C23_Witness ==
    /\ returned # <<>>
    /\ attempts = <<"pymupdf", "pdfplumber">>
    /\ ~results[1].success
    /\ returned[1].success

\* C24: when parse_pdf falls back to pdfplumber, what it returns is what a
\* new parser derives from the pdfplumber text alone: header, line items and
\* categories hold nothing of the failed first attempt.
C24_NoLeakIntoFallback ==
    (/\ returned # <<>>
     /\ attempts = <<"pymupdf", "pdfplumber">>
     /\ file.pdfplumber.ok)
        => returned[1] = RunHelper(NewParser, file.pdfplumber.text).result

(***************************************************************************)
(* parse_estimate under concurrency.                                       *)
(***************************************************************************)
BothDone == \A r \in Requests : handler[r].pc = "done"

\* C25: when two parse-estimate requests run concurrently, in any
\* interleaving and also with the same upload file name, each response is
\* the one the request gets when run alone on its own upload, and when both
\* are finished no temporary upload file is left.
C25_RequestsDoNotInterfere ==
    (handler # <<>> /\ BothDone) =>
        /\ \A r \in Requests : responses[r] = <<AloneResponse(uploads[r].content)>>
        /\ DOMAIN fs = {}

(***************************************************************************)
(* The property address.                                                   *)
(***************************************************************************)
AddressMarkers == {"claim rep", "business:", "position:", "company:"}

\* positions at which the search finds the 'Property:' label
LabelFound(text) ==
    {k \in LabelPositions(text, "Property:") : PropertyMatchesAt(text, k)}

\* the lines of ls before the first one that holds a marker
RECURSIVE BeforeMarker(_)
BeforeMarker(ls) ==
    IF ls = <<>> \/ ContainsAny(Lower(Head(ls)), AddressMarkers) THEN <<>>
    ELSE <<Head(ls)>> \o BeforeMarker(Tail(ls))

\* the address as claimed: up to 4 lines from the label's line, cut at the
\* first marker line, the label taken off, joined by single spaces
ClaimedAddress(text) ==
    LET start == CHOOSE k \in LabelFound(text) : \A m \in LabelFound(text) : k <= m
        from_label == SplitOn(SubSeq(text, start, Len(text)), "\n")
        first_four == SubSeq(from_label, 1, Min(4, Len(from_label)))
        kept == BeforeMarker(first_four)
        parts == [n \in 1..Len(kept) |->
                     IF n = 1
                     THEN Strip(SubSeq(kept[1], Len("Property:") + 1, Len(kept[1])))
                     ELSE Strip(kept[n])]
    IN JoinWith(parts, " ")

\* C26: after _extract_header_data on a new parser, a text in which the
\* 'Property:' label is found gives property_address the (at most 4) lines
\* from the label's line up to the first marker line, joined by single
\* spaces with the label removed; a text without the label gives no
\* property_address.
C26_PropertyAddress ==
    (attempts = <<"pymupdf">> /\ pc = "scan") =>
        IF LabelFound(doc) # {}
        THEN /\ "property_address" \in DOMAIN header_data
             /\ header_data["property_address"] = ClaimedAddress(doc)
        ELSE "property_address" \notin DOMAIN header_data

(***************************************************************************)
(* The room of an item.                                                    *)
(***************************************************************************)
\* the text of the last of the lines 1..upto of ls that satisfies the
\* room-heading predicate, None when there is none
LatestHeading(ls, upto) ==
    LET headings == {h \in 1..upto : RoomHeading(ls, h)}
    IN IF headings = {} THEN None
       ELSE Strip(ls[CHOOSE h \in headings : \A m \in headings : m <= h])

\* C27: the room check is made on every scanned line, so after the scan step
\* of line i + 1 the room in force is the text of the latest line up to and
\* including that line that satisfies the room-heading predicate, or null,
\* and every item extracted from a header on that line carries exactly this
\* room, the header line itself included.
C27_RoomIsLatestHeading ==
    [][(pc = "scan" /\ i < Len(lines) /\ i' = i + 1) =>
          /\ current_room' = LatestHeading(lines, i + 1)
          /\ \A n \in (Len(line_items) + 1)..Len(line_items') :
                line_items'[n].room = LatestHeading(lines, i + 1)]_vars

\* an item whose room is its own header line, after an earlier heading
C27_Witness ==
    /\ pc = "scan"
    /\ i = Len(lines)
    /\ \E h \in 2..Len(lines) : \E n \in 1..Len(line_items) :
          /\ RoomHeading(lines, 1)
          /\ RoomHeading(lines, h)
          /\ ItemMatches(Strip(lines[h]))
          /\ line_items[n].description = "Insulated exterior door with lockset"
          /\ line_items[n].room = Strip(lines[h])
          /\ line_items[n].room # Strip(lines[1])

(***************************************************************************)
(* The deductible.                                                         *)
(***************************************************************************)
\* C28: no step of the parser puts a deductible field into the header, and
\* every successful result returned by parse_pdf has totals.deductible 0 and
\* totals.net_claim equal to totals.acv, also for a text that states a
\* deductible.
C28_DeductibleIsZero ==
    /\ "deductible" \notin DOMAIN header_data
    /\ (returned # <<>> /\ returned[1].success) =>
          /\ "deductible" \notin DOMAIN returned[1].header
          /\ returned[1].totals.deductible = 0
          /\ returned[1].totals.net_claim = returned[1].totals.acv

\* a successful result for a text that states a deductible
C28_Witness ==
    /\ returned # <<>>
    /\ returned[1].success
    /\ Contains(doc, "Deductible: 500.00")
    /\ returned[1].totals.acv > 0
    /\ returned[1].totals.net_claim = returned[1].totals.acv

====
